---- MODULE Spec2Model ----
(***************************************************************************)
(* AI-Resume-Analyzer: the rule-based extraction engine (nlp_processor.py),*)
(* the weighted scoring model (ml_model.py), the batch upload handler      *)
(* (app.py) and the CV / candidate store (database.py).                    *)
(*                                                                         *)
(* Conventions.  Text is a sequence of one-character strings, so that the  *)
(* substring tests and regular expressions of the source are computed on   *)
(* characters.  Percentages that the source rounds to 2 decimals are kept  *)
(* as integers in hundredths (33.33 is 3333); a float that the source does *)
(* not round is kept as an exact fraction <<numerator, denominator>>.      *)
(***************************************************************************)
EXTENDS Integers, Sequences, FiniteSets, TLC

VARIABLES
    \* ---- scoring (ml_model.py) ----
    resume_data,      \* the profile passed to the scoring model
    job_description,  \* the job requirement text
    hashSeed,         \* string-hash seed of the running interpreter
    reports,          \* the set of results the scoring calls have returned
    \* ---- extraction (nlp_processor.py) ----
    document,         \* the file handed to parse_resume
    today,            \* the calendar date datetime.now() reads
    parsed,           \* the results parse_resume has returned
    code_args,        \* the arguments of generate_confidential_code
    issued,           \* the codes generated, each with its arguments and date
    \* ---- batch upload and store (app.py, database.py) ----
    uploads,          \* per user: the files of the batch being processed
    cursor,           \* per user: position in the batch and in the file
    counters,         \* per user: successful / failed / skipped
    outcomes,         \* per user: the outcome of every file processed so far
    cv_storage,       \* the cv_storage table
    candidates,       \* the candidates table
    skill_rows,       \* the skills table
    memo,             \* what parse_resume and generate_comprehensive_report return
                      \* for the files that can be uploaded (both are functions of
                      \* their arguments, the date and the hash seed, all fixed
                      \* during a batch; computed once, looked up at every call)
    \* ---- single calls of the helper functions ----
    call,             \* the last call made: the function, its arguments, its result
    pool              \* the profiles scored one after another in one process

scoreVars == <<resume_data, job_description, hashSeed, reports>>
parseVars == <<document, today, parsed, code_args, issued>>
batchVars == <<uploads, cursor, counters, outcomes, cv_storage, candidates, skill_rows, memo>>
callVars == <<call, pool>>
vars == <<resume_data, job_description, hashSeed, reports,
          document, today, parsed, code_args, issued,
          uploads, cursor, counters, outcomes, cv_storage, candidates, skill_rows, memo,
          call, pool>>

-----------------------------------------------------------------------------
(* Bounds of the model *)

MaxJobPhrases == 3      \* phrases in a job text
MaxPositions == 1       \* positions in a candidate's career_progression
MaxBlocks == 4          \* pages or paragraphs of a document
MaxIssued == 2          \* confidential codes generated in one behaviour
MaxFiles == 2           \* files uploaded in the batches of one behaviour
NumSeeds == 2           \* interpreter starts (each draws a hash seed)
MaxTenths == 160        \* years of experience passed to a helper, in tenths
MaxScanLines == 4       \* lines of a document whose lines come in any order
MaxScore == 10100       \* overall score passed to a helper, in hundredths
MaxCallPositions == 2   \* position lines of an experience section passed to the extractor
MaxPool == 2            \* profiles scored against one job text in one process
MaxMentions == 3        \* mentions of one skill in a text passed to the skill extractor

-----------------------------------------------------------------------------
(* Characters and text *)

Spell ==
  "Python" :> <<"P","y","t","h","o","n">> @@
  "sql" :> <<"s","q","l">> @@
  "excel" :> <<"e","x","c","e","l">> @@
  "django" :> <<"d","j","a","n","g","o">> @@
  "agile django" :> <<"a","g","i","l","e"," ","d","j","a","n","g","o">> @@
  "agile" :> <<"a","g","i","l","e">> @@
  "5+ years experience" :> <<"5","+"," ","y","e","a","r","s"," ","e","x","p","e","r","i","e","n","c","e">> @@
  "python" :> <<"p","y","t","h","o","n">> @@
  "go" :> <<"g","o">> @@
  "r" :> <<"r">> @@
  "flask" :> <<"f","l","a","s","k">> @@
  "mysql" :> <<"m","y","s","q","l">> @@
  "year" :> <<"y","e","a","r">> @@
  "experience" :> <<"e","x","p","e","r","i","e","n","c","e">> @@
  "senior" :> <<"s","e","n","i","o","r">> @@
  "junior" :> <<"j","u","n","i","o","r">> @@
  "mid-level" :> <<"m","i","d","-","l","e","v","e","l">> @@
  "entry-level" :> <<"e","n","t","r","y","-","l","e","v","e","l">> @@
  "executive" :> <<"e","x","e","c","u","t","i","v","e">> @@
  "lead" :> <<"l","e","a","d">> @@
  "principal" :> <<"p","r","i","n","c","i","p","a","l">> @@
  "fast-paced" :> <<"f","a","s","t","-","p","a","c","e","d">> @@
  "innovative" :> <<"i","n","n","o","v","a","t","i","v","e">> @@
  "startup" :> <<"s","t","a","r","t","u","p">> @@
  "remote" :> <<"r","e","m","o","t","e">> @@
  "hybrid" :> <<"h","y","b","r","i","d">> @@
  "phd" :> <<"p","h","d">> @@
  "ma" :> <<"m","a">> @@
  "ba" :> <<"b","a">> @@
  "degree" :> <<"d","e","g","r","e","e">> @@
  "diploma" :> <<"d","i","p","l","o","m","a">> @@
  "it" :> <<"i","t">> @@
  "software" :> <<"s","o","f","t","w","a","r","e">> @@
  "finance" :> <<"f","i","n","a","n","c","e">> @@
  "bank" :> <<"b","a","n","k">> @@
  "sales" :> <<"s","a","l","e","s">> @@
  "cs" :> <<"c","s">> @@
  "business" :> <<"b","u","s","i","n","e","s","s">> @@
  "engineering" :> <<"e","n","g","i","n","e","e","r","i","n","g">> @@
  "math" :> <<"m","a","t","h">> @@
  "manage" :> <<"m","a","n","a","g","e">> @@
  "director" :> <<"d","i","r","e","c","t","o","r">> @@
  "head" :> <<"h","e","a","d">> @@
  "manager" :> <<"m","a","n","a","g","e","r">> @@
  "Developer" :> <<"D","e","v","e","l","o","p","e","r">> @@
  "Team Lead" :> <<"T","e","a","m"," ","L","e","a","d">> @@
  "Developer at Acme 2018-2020" :> <<"D","e","v","e","l","o","p","e","r"," ","a","t"," ","A","c","m","e"," ","2","0","1","8","-","2","0","2","0">> @@
  "Team Lead, managed accounts at Globex Bank 2015-2020" :> <<"T","e","a","m"," ","L","e","a","d",","," ","m","a","n","a","g","e","d"," ","a","c","c","o","u","n","t","s"," ","a","t"," ","G","l","o","b","e","x"," ","B","a","n","k"," ","2","0","1","5","-","2","0","2","0">> @@
  ", " :> <<","," ">> @@
  "" :> <<>> @@
  "Phone 0771234567" :> <<"P","h","o","n","e"," ","0","7","7","1","2","3","4","5","6","7">> @@
  "Education" :> <<"E","d","u","c","a","t","i","o","n">> @@
  "Bachelor of Science" :> <<"B","a","c","h","e","l","o","r"," ","o","f"," ","S","c","i","e","n","c","e">> @@
  "Bachelor of Arts" :> <<"B","a","c","h","e","l","o","r"," ","o","f"," ","A","r","t","s">> @@
  "Master of Science" :> <<"M","a","s","t","e","r"," ","o","f"," ","S","c","i","e","n","c","e">> @@
  "Master of Education" :> <<"M","a","s","t","e","r"," ","o","f"," ","E","d","u","c","a","t","i","o","n">> @@
  "Skills" :> <<"S","k","i","l","l","s">> @@
  "- python, sql" :> <<"-"," ","p","y","t","h","o","n",","," ","s","q","l">> @@
  "PhD in Mathematics" :> <<"P","h","D"," ","i","n"," ","M","a","t","h","e","m","a","t","i","c","s">> @@
  "Experience" :> <<"E","x","p","e","r","i","e","n","c","e">> @@
  "Employee of the year award 2019" :> <<"E","m","p","l","o","y","e","e"," ","o","f"," ","t","h","e"," ","y","e","a","r"," ","a","w","a","r","d"," ","2","0","1","9">> @@
  "Employee of the year award" :> <<"E","m","p","l","o","y","e","e"," ","o","f"," ","t","h","e"," ","y","e","a","r"," ","a","w","a","r","d">> @@
  "education" :> <<"e","d","u","c","a","t","i","o","n">> @@
  "qualifications" :> <<"q","u","a","l","i","f","i","c","a","t","i","o","n","s">> @@
  "academic" :> <<"a","c","a","d","e","m","i","c">> @@
  "degrees" :> <<"d","e","g","r","e","e","s">> @@
  "employment" :> <<"e","m","p","l","o","y","m","e","n","t">> @@
  "skills" :> <<"s","k","i","l","l","s">> @@
  "projects" :> <<"p","r","o","j","e","c","t","s">> @@
  "certifications" :> <<"c","e","r","t","i","f","i","c","a","t","i","o","n","s">> @@
  "professional" :> <<"p","r","o","f","e","s","s","i","o","n","a","l">> @@
  "career" :> <<"c","a","r","e","e","r">> @@
  "work history" :> <<"w","o","r","k"," ","h","i","s","t","o","r","y">> @@
  "awards" :> <<"a","w","a","r","d","s">> @@
  "references" :> <<"r","e","f","e","r","e","n","c","e","s">> @@
  "personal" :> <<"p","e","r","s","o","n","a","l">> @@
  "doctorate" :> <<"d","o","c","t","o","r","a","t","e">> @@
  "master" :> <<"m","a","s","t","e","r">> @@
  "msc" :> <<"m","s","c">> @@
  "mba" :> <<"m","b","a">> @@
  "bachelor" :> <<"b","a","c","h","e","l","o","r">> @@
  "bsc" :> <<"b","s","c">> @@
  "certificate" :> <<"c","e","r","t","i","f","i","c","a","t","e">> @@
  "certified" :> <<"c","e","r","t","i","f","i","e","d">> @@
  "high school" :> <<"h","i","g","h"," ","s","c","h","o","o","l">> @@
  "computer science" :> <<"c","o","m","p","u","t","e","r"," ","s","c","i","e","n","c","e">> @@
  "mathematics" :> <<"m","a","t","h","e","m","a","t","i","c","s">> @@
  "competencies" :> <<"c","o","m","p","e","t","e","n","c","i","e","s">> @@
  "award" :> <<"a","w","a","r","d">> @@
  "prize" :> <<"p","r","i","z","e">> @@
  "certification" :> <<"c","e","r","t","i","f","i","c","a","t","i","o","n">> @@
  "honor" :> <<"h","o","n","o","r">> @@
  "scholarship" :> <<"s","c","h","o","l","a","r","s","h","i","p">> @@
  "publication" :> <<"p","u","b","l","i","c","a","t","i","o","n">> @@
  "paper" :> <<"p","a","p","e","r">> @@
  "patent" :> <<"p","a","t","e","n","t">> @@
  "developer" :> <<"d","e","v","e","l","o","p","e","r">> @@
  "led" :> <<"l","e","d">> @@
  "managed" :> <<"m","a","n","a","g","e","d">> @@
  "developed" :> <<"d","e","v","e","l","o","p","e","d">> @@
  "won" :> <<"w","o","n">> @@
  "awarded" :> <<"a","w","a","r","d","e","d">> @@
  "0771234567" :> <<"0","7","7","1","2","3","4","5","6","7">> @@
  "0712345678" :> <<"0","7","1","2","3","4","5","6","7","8">> @@
  "present" :> <<"p","r","e","s","e","n","t">> @@
  "current" :> <<"c","u","r","r","e","n","t">> @@
  "now" :> <<"n","o","w">> @@
  "university of " :> <<"u","n","i","v","e","r","s","i","t","y"," ","o","f"," ">> @@
  "university" :> <<"u","n","i","v","e","r","s","i","t","y">> @@
  "college" :> <<"c","o","l","l","e","g","e">> @@
  "institute" :> <<"i","n","s","t","i","t","u","t","e">> @@
  "school" :> <<"s","c","h","o","o","l">> @@
  "polytechnic" :> <<"p","o","l","y","t","e","c","h","n","i","c">> @@
  "jan" :> <<"j","a","n">> @@
  "feb" :> <<"f","e","b">> @@
  "mar" :> <<"m","a","r">> @@
  "apr" :> <<"a","p","r">> @@
  "may" :> <<"m","a","y">> @@
  "jun" :> <<"j","u","n">> @@
  "jul" :> <<"j","u","l">> @@
  "aug" :> <<"a","u","g">> @@
  "sep" :> <<"s","e","p">> @@
  "oct" :> <<"o","c","t">> @@
  "nov" :> <<"n","o","v">> @@
  "dec" :> <<"d","e","c">> @@
  "Lead at Globex 2020-Present" :> <<"L","e","a","d"," ","a","t"," ","G","l","o","b","e","x"," ","2","0","2","0","-","P","r","e","s","e","n","t">> @@
  "BSc Mathematics, Africa College 2014" :> <<"B","S","c"," ","M","a","t","h","e","m","a","t","i","c","s",","," ","A","f","r","i","c","a"," ","C","o","l","l","e","g","e"," ","2","0","1","4">> @@
  "2020-Present" :> <<"2","0","2","0","-","P","r","e","s","e","n","t">> @@
  "2014" :> <<"2","0","1","4">> @@
  "2018-2020" :> <<"2","0","1","8","-","2","0","2","0">> @@
  "2015-2020" :> <<"2","0","1","5","-","2","0","2","0">> @@
  "2019" :> <<"2","0","1","9">> @@
  "- python python python" :> <<"-"," ","p","y","t","h","o","n"," ","p","y","t","h","o","n"," ","p","y","t","h","o","n">> @@
  "python python python" :> <<"p","y","t","h","o","n"," ","p","y","t","h","o","n"," ","p","y","t","h","o","n">> @@
  "Managed the skills matrix of all the delivery teams there" :> <<"M","a","n","a","g","e","d"," ","t","h","e"," ","s","k","i","l","l","s"," ","m","a","t","r","i","x"," ","o","f"," ","a","l","l"," ","t","h","e"," ","d","e","l","i","v","e","r","y"," ","t","e","a","m","s"," ","t","h","e","r","e">> @@
  "Lead" :> <<"L","e","a","d">> @@
  "BSc M" :> <<"B","S","c"," ","M">> @@
  "Africa" :> <<"A","f","r","i","c","a">> @@
  "Mathematics" :> <<"M","a","t","h","e","m","a","t","i","c","s">> @@
  "Developer at Acme 2020-2018" :> <<"D","e","v","e","l","o","p","e","r"," ","a","t"," ","A","c","m","e"," ","2","0","2","0","-","2","0","1","8">> @@
  "2020-2018" :> <<"2","0","2","0","-","2","0","1","8">> @@
  "Developer at Acme 2000-2026" :> <<"D","e","v","e","l","o","p","e","r"," ","a","t"," ","A","c","m","e"," ","2","0","0","0","-","2","0","2","6">> @@
  "2000-2026" :> <<"2","0","0","0","-","2","0","2","6">> @@
  "0+ years experience" :> <<"0","+"," ","y","e","a","r","s"," ","e","x","p","e","r","i","e","n","c","e">> @@
  "3 years experience" :> <<"3"," ","y","e","a","r","s"," ","e","x","p","e","r","i","e","n","c","e">> @@
  " role, " :> <<" ","r","o","l","e",","," ">> @@
  "Experienced Developer at Acme 2018-2020" :> <<"E","x","p","e","r","i","e","n","c","e","d"," ","D","e","v","e","l","o","p","e","r"," ","a","t"," ","A","c","m","e"," ","2","0","1","8","-","2","0","2","0">>

\* str.lower() on the letters that occur in the texts of the model
LowerChar(c) ==
  CASE c = "A" -> "a" [] c = "B" -> "b" [] c = "D" -> "d" [] c = "E" -> "e"
    [] c = "G" -> "g" [] c = "L" -> "l" [] c = "M" -> "m" [] c = "P" -> "p"
    [] c = "S" -> "s" [] c = "T" -> "t" [] c = "C" -> "c" [] OTHER -> c

(* A local variable of the source: the value is computed once, at the      *)
(* assignment, and the rest of the function body F reads it.                *)
Local1(F(_), a) == CHOOSE v \in { F(x) : x \in {a} } : TRUE
Local2(F(_, _), a, b) == CHOOSE v \in { F(x, y) : x \in {a}, y \in {b} } : TRUE

Min(a, b) == IF a <= b THEN a ELSE b

Max(a, b) == IF a >= b THEN a ELSE b

Lower(t) == [i \in 1..Len(t) |-> LowerChar(t[i])]

\* Python's  w in t  on strings
Contains(t, w) ==
  LET Found(text, word) ==
        \/ word = <<>>
        \/ \E i \in 1..(Len(text) - Len(word) + 1) :
              text[i] = word[1] /\ SubSeq(text, i, i + Len(word) - 1) = word
  IN Local2(Found, t, w)

Digits == {"0","1","2","3","4","5","6","7","8","9"}
Whitespace == {" ", "\n", "\t"}

DigitValue(c) ==
  CASE c = "0" -> 0 [] c = "1" -> 1 [] c = "2" -> 2 [] c = "3" -> 3
    [] c = "4" -> 4 [] c = "5" -> 5 [] c = "6" -> 6 [] c = "7" -> 7
    [] c = "8" -> 8 [] c = "9" -> 9

RECURSIVE ParseInt(_)
ParseInt(ds) ==
  IF ds = <<>> THEN 0
  ELSE 10 * ParseInt(SubSeq(ds, 1, Len(ds) - 1)) + DigitValue(ds[Len(ds)])

(* A regular expression without alternation is a sequence of items          *)
(* [cls, lo, hi]: between lo and hi characters of the class cls.            *)
(* MatchEnds is the set of positions at which a match of items k.. that     *)
(* starts at position i can end.                                            *)
Lit(c) == [cls |-> {c}, lo |-> 1, hi |-> 1]
Word(w) == [i \in 1..Len(w) |-> Lit(w[i])]

\* the longest run of characters of cls that starts at position i
RECURSIVE RunEnd(_, _, _)
RunEnd(t, i, cls) ==
  IF i <= Len(t) /\ t[i] \in cls THEN RunEnd(t, i + 1, cls) ELSE i

\* the positions at which between item.lo and item.hi characters of item.cls,
\* read from position i on, can end
RepEnds(item, t, i) ==
  LET Ends(longest) == { i + n : n \in item.lo..Min(item.hi, longest) }
  IN Local1(Ends, RunEnd(t, i, item.cls) - i)

RECURSIVE MatchEnds(_, _, _, _)
MatchEnds(pat, k, t, i) ==
  IF k > Len(pat) THEN {i}
  ELSE UNION { MatchEnds(pat, k + 1, t, j) : j \in RepEnds(pat[k], t, i) }

\* re.search: the leftmost position where the pattern matches, 0 if none
SearchStart(pat, t) ==
  LET Leftmost(items, text) ==
        LET starts == { i \in 1..Len(text) : MatchEnds(items, 1, text, i) # {} }
        IN IF starts = {} THEN 0
           ELSE CHOOSE i \in starts : \A j \in starts : i <= j
  IN Local2(Leftmost, pat, t)

\* round(n / d) to an integer, halves to even as Python's round()
RoundHalfEven(n, d) ==
  LET q == n \div d
      r == n % d
  IN IF 2 * r < d THEN q
     ELSE IF 2 * r > d THEN q + 1
     ELSE IF q % 2 = 0 THEN q ELSE q + 1


RECURSIVE SumSeq(_)
SumSeq(s) == IF s = <<>> THEN 0 ELSE s[1] + SumSeq(Tail(s))

\* the elements of a sequence, as a Python set() of it
Range(s) == { s[i] : i \in 1..Len(s) }

\* the sub-sequence of s of the elements that lie in the set S
SelectSeqOf(s, S) ==
  LET Select(seq, set) == SelectSeq(seq, LAMBDA x : x \in set)
  IN Local2(Select, s, S)


-----------------------------------------------------------------------------
(* ml_model.py: the tables.  A table whose entries are matched against the  *)
(* job text keeps the entries that occur in some job text of the model and  *)
(* a few that occur in none; the other entries of the source can match no   *)
(* text built from JobPhrases.                                              *)

skill_categories == <<
  [category |-> "programming_languages", skills |-> <<"python", "go", "r", "sql">>],
  [category |-> "web_development",       skills |-> <<"django", "flask">>],
  [category |-> "databases",             skills |-> <<"mysql">>],
  [category |-> "project_management",    skills |-> <<"agile">>] >>

skill_relationships ==
  "python" :> <<"django", "flask", "pandas", "numpy", "scikit-learn", "tensorflow", "keras">> @@
  "java" :> <<"spring", "hibernate", "j2ee", "android", "microservices">> @@
  "javascript" :> <<"react", "angular", "vue", "node.js", "typescript", "express">> @@
  "sql" :> <<"mysql", "postgresql", "oracle", "sql server", "database design">> @@
  "aws" :> <<"azure", "google cloud", "docker", "kubernetes", "terraform", "devops">> @@
  "machine learning" :> <<"deep learning", "tensorflow", "pytorch", "neural networks", "data science">> @@
  "react" :> <<"react native", "redux", "next.js", "frontend development">> @@
  "docker" :> <<"kubernetes", "containerization", "microservices", "devops">> @@
  "project management" :> <<"agile", "scrum", "kanban", "jira", "stakeholder management">> @@
  "financial analysis" :> <<"accounting", "forecasting", "budgeting", "financial modeling">>

culture_keywords == <<"fast-paced", "innovative", "startup", "agile", "remote", "hybrid">>

level_alternatives ==
  <<"senior", "junior", "mid-level", "entry-level", "executive", "lead", "principal">>

level_mapping ==
  "entry-level" :> 0 @@ "junior" :> 1 @@ "mid-level" :> 3 @@ "senior" :> 5 @@
  "lead" :> 7 @@ "principal" :> 8 @@ "executive" :> 10

level_scores ==
  "phd" :> 100 @@ "masters" :> 85 @@ "bachelors" :> 70 @@ "diploma" :> 60 @@
  "certificate" :> 50 @@ "" :> 30

\* dict.get(key, default)
Get(d, key, default) == IF key \in DOMAIN d THEN d[key] ELSE default

(* list(set(...)): the order in which a set of strings is iterated depends  *)
(* on the string hashes, which the interpreter seeds afresh at every start. *)
(* Within one interpreter the order of a given set is fixed.                *)
SkillOrder ==
  <<"python", "go", "r", "sql", "django", "flask", "mysql", "agile",
    "Acme", "Globex", "Developer", "Team Lead", "Employee of the year award",
    "Lead", "BSc M", "Africa">>

Reverse(s) == [i \in 1..Len(s) |-> s[Len(s) + 1 - i]]

ListOfSet(S, seed) ==
  IF seed % 2 = 1 THEN SelectSeqOf(SkillOrder, S)
  ELSE SelectSeqOf(Reverse(SkillOrder), S)

-----------------------------------------------------------------------------
(* ml_model.py: skill fit *)

AllTaxonomySkills ==
  UNION { Range(skill_categories[i].skills) : i \in 1..Len(skill_categories) }

\* the scan without text.lower()
ExtractSkillsCaseSensitive(text) ==
  { skill \in AllTaxonomySkills : Contains(text, Spell[skill]) }

\* _extract_skills_with_context_advanced, before list(set(skills))
ExtractSkillsWithContext(text) ==
  LET Scan(text_lower) ==
        { skill \in AllTaxonomySkills : Contains(text_lower, Spell[skill]) }
  IN Local1(Scan, Lower(text))

\* _flatten_skills_advanced: the names of the entries with confidence > 0.3
RECURSIVE FlattenSkills(_)
FlattenSkills(entries) ==
  IF entries = <<>> THEN <<>>
  ELSE IF entries[1].confidence > 30
       THEN <<entries[1].skill>> \o FlattenSkills(Tail(entries))
       ELSE FlattenSkills(Tail(entries))

\* _find_related_skills_advanced
FindRelatedSkills(candidate_skills, job_skills) ==
  { related_skill \in Range(candidate_skills) :
      \E job_skill \in job_skills :
          /\ job_skill \in DOMAIN skill_relationships
          /\ related_skill \in Range(skill_relationships[job_skill]) }

\* the categories of a profile's skills_by_category, in dictionary order
RECURSIVE CategoriesOf(_)
CategoriesOf(entries) ==
  IF entries = <<>> THEN <<>>
  ELSE LET rest == CategoriesOf(Tail(entries))
       IN IF entries[1].category \in Range(rest) THEN rest
          ELSE <<entries[1].category>> \o rest

\* _analyze_skill_categories
AnalyzeSkillCategories(entries, job_skills, seed) ==
  [ category \in { e.category : e \in Range(entries) } |->
      LET category_skills == { e.skill : e \in { x \in Range(entries) : x.category = category } }
          matches == category_skills \cap job_skills
      IN [ match_count |-> Cardinality(matches),
           total_skills |-> Cardinality({ i \in 1..Len(entries) : entries[i].category = category }),
           match_percentage |-> IF job_skills # {}
                                THEN <<Cardinality(matches) * 100, Cardinality(job_skills)>>
                                ELSE <<0, 1>>,
           matched_skills |-> ListOfSet(matches, seed) ] ]

\* _calculate_skill_strength_index, in hundredths
SkillStrengthIndex(entries) ==
  LET total_skills == Len(entries)
      total_score == SumSeq([i \in 1..Len(entries) |-> entries[i].confidence * entries[i].frequency])
  IN IF total_skills > 0
     THEN RoundHalfEven(total_score * 100, Max(total_skills, 1))
     ELSE 0

\* the divisions without their guard
SkillMatchUnguarded(job_skills) == TRUE

\* `if job_skills` of _analyze_skill_fit_advanced: the guard of both divisions
SkillMatchGuard(job_skills) == job_skills # {}

\* _analyze_skill_fit_advanced; fault is the exception the call raises
AnalyzeSkillFit(skills_data, job_text, seed) ==
  LET job_skills == ExtractSkillsWithContext(job_text)
      candidate_skills_flat == FlattenSkills(skills_data.skills_by_category)
      exact_matches == Range(candidate_skills_flat) \cap job_skills
      related_matches == FindRelatedSkills(candidate_skills_flat, job_skills)
      skill_gaps == job_skills \ Range(candidate_skills_flat)
      n == Cardinality(job_skills)
      faulty == SkillMatchGuard(job_skills) /\ n = 0
  IN [ fault |-> IF faulty THEN "ZeroDivisionError" ELSE "none",
       match_percentage |->
           IF SkillMatchGuard(job_skills) /\ n # 0
           THEN RoundHalfEven(Cardinality(exact_matches) * 10000, n) ELSE 0,
       comprehensive_match_percentage |->
           IF SkillMatchGuard(job_skills) /\ n # 0
           THEN RoundHalfEven((Cardinality(exact_matches) * 10 + Cardinality(related_matches) * 7) * 1000, n)
           ELSE 0,
       exact_matches |-> ListOfSet(exact_matches, seed),
       related_skills |-> ListOfSet(related_matches, seed),
       critical_skill_gaps |-> ListOfSet(skill_gaps, seed),
       skill_diversity_score |-> skills_data.skill_diversity,
       total_skills_count |-> skills_data.total_skills,
       category_breakdown |-> AnalyzeSkillCategories(skills_data.skills_by_category, job_skills, seed),
       skill_strength_index |-> SkillStrengthIndex(skills_data.skills_by_category) ]

-----------------------------------------------------------------------------
(* ml_model.py: experience fit *)

Many(cls, lo, t) == [cls |-> cls, lo |-> lo, hi |-> Len(t)]
Opt(cls) == [cls |-> cls, lo |-> 0, hi |-> 1]

\* r'(\d+)\+?\s*years?\s*experience'
MinYearsPattern(t) ==
  <<Many(Digits, 1, t), Opt({"+"}), Many(Whitespace, 0, t)>> \o Word(Spell["year"])
    \o <<Opt({"s"}), Many(Whitespace, 0, t)>> \o Word(Spell["experience"])

\* r'(senior|junior|mid-level|entry-level|executive|lead|principal)': the
\* alternative matched at the leftmost position, the first one in order there
LevelAt(t, i) ==
  LET hits == { k \in 1..Len(level_alternatives) :
                  LET w == Spell[level_alternatives[k]]
                  IN /\ i + Len(w) - 1 <= Len(t)
                     /\ t[i] = w[1]
                     /\ SubSeq(t, i, i + Len(w) - 1) = w }
  IN IF hits = {} THEN ""
     ELSE level_alternatives[CHOOSE k \in hits : \A j \in hits : k <= j]

LevelSearch(t) ==
  LET Leftmost(text) ==
        LET starts == { i \in 1..Len(text) : LevelAt(text, i) # "" }
        IN IF starts = {} THEN ""
           ELSE LevelAt(text, CHOOSE i \in starts : \A j \in starts : i <= j)
  IN Local1(Leftmost, t)

\* `if not requirements['min_years']`: the parsed number counts as absent
MinYearsAbsent(min_years) == min_years = 0

\* _extract_experience_requirements_advanced
ExtractExperienceRequirements(job_text) ==
  LET Requirements(t) ==
        LET i == SearchStart(MinYearsPattern(t), t)
            parsed_years ==
              IF i = 0 THEN 0 ELSE ParseInt(SubSeq(t, i, RunEnd(t, i, Digits) - 1))
            level == LevelSearch(t)
        IN [ min_years |-> IF MinYearsAbsent(parsed_years)
                           THEN Get(level_mapping, level, 2)
                           ELSE parsed_years,
             level |-> level ]
  IN Local1(Requirements, Lower(job_text))

\* _calculate_experience_sufficiency_score: the float, as an exact fraction
ExperienceSufficiencyScore(actual_experience, required_experience) ==
  IF actual_experience >= required_experience THEN <<100, 1>>
  ELSE IF required_experience > 0
       THEN <<actual_experience * 100, required_experience>>
       ELSE <<50, 1>>

\* _analyze_career_trajectory_advanced, in hundredths
CareerTrajectoryScore(experience_data) ==
  LET career_progression == experience_data.career_progression
      position_count == Len(career_progression)
      total_experience == experience_data.total_experience_years
      \* min(1.0, avg / 2.5) * 40 and min(1.0, count / 8) * 30, times 4 * count
      stability4c == IF 2 * total_experience >= 5 * position_count
                     THEN 160 * position_count ELSE 64 * total_experience
      progression4c == IF position_count >= 8 THEN 120 * position_count
                       ELSE 15 * position_count * position_count
      leadership_score == IF experience_data.promotion_trajectory = "Stable Progression"
                          THEN 30 ELSE 15
  IN IF career_progression = <<>> THEN 0
     ELSE RoundHalfEven(100 * (stability4c + progression4c + 4 * position_count * leadership_score),
                        4 * position_count)

industry_keywords == <<
  [industry |-> "technology", keywords |-> <<"software", "it">>],
  [industry |-> "finance",    keywords |-> <<"finance", "bank">>],
  [industry |-> "retail",     keywords |-> <<"sales">>] >>

\* _extract_industries_from_job_advanced, on the lowered text
RECURSIVE IndustriesIn(_, _)
IndustriesIn(t, k) ==
  IF k > Len(industry_keywords) THEN <<>>
  ELSE (IF \E w \in Range(industry_keywords[k].keywords) : Contains(t, Spell[w])
        THEN <<industry_keywords[k].industry>> ELSE <<>>) \o IndustriesIn(t, k + 1)

ExtractIndustriesFromJob(job_text) == Local1(LAMBDA t : IndustriesIn(t, 1), Lower(job_text))

\* _analyze_industry_relevance_advanced, in hundredths
IndustryRelevance(experience_data, job_text) ==
  LET job_industries == ExtractIndustriesFromJob(job_text)
      candidate_industries == experience_data.industry_sectors
      overlap == Range(job_industries) \cap Range(candidate_industries)
      industry_diversity_bonus == Min(20, Len(candidate_industries) * 5)
  IN IF job_industries = <<>> \/ candidate_industries = <<>> THEN 5000
     ELSE Min(RoundHalfEven(Cardinality(overlap) * 10000, Len(job_industries))
                + industry_diversity_bonus * 100, 10000)

leadership_keywords == <<"lead", "manage", "director", "head", "manager">>
leadership_roles == <<"manager", "director", "head", "lead">>

\* _assess_leadership_experience
RECURSIVE LeadershipEvidence(_)
LeadershipEvidence(career_progression) ==
  IF career_progression = <<>> THEN 0
  ELSE LET position == career_progression[1]
           description == Lower(Spell[position.description])
           position_title == Lower(Spell[position.position])
       IN (IF \E w \in Range(leadership_keywords) : Contains(description, Spell[w]) THEN 1 ELSE 0)
          + (IF \E w \in Range(leadership_roles) : Contains(position_title, Spell[w]) THEN 2 ELSE 0)
          + LeadershipEvidence(Tail(career_progression))

AssessLeadershipExperience(experience_data) ==
  Min(100, LeadershipEvidence(experience_data.career_progression) * 20)

\* _assess_career_stability, in hundredths
AssessCareerStability(experience_data) ==
  LET career_progression == experience_data.career_progression
      total_positions == Len(career_progression)
      short_term_positions ==
        Cardinality({ i \in 1..total_positions : career_progression[i].duration_years < 1 })
  IN IF career_progression = <<>> THEN 5000
     ELSE RoundHalfEven((total_positions - short_term_positions) * 10000, total_positions)

\* _analyze_experience_fit_advanced
AnalyzeExperienceFit(experience_data, job_text) ==
  LET actual == experience_data.total_experience_years
      Body(exp_requirements) ==
        [ experience_sufficiency |-> actual >= exp_requirements.min_years,
          experience_sufficiency_score |-> ExperienceSufficiencyScore(actual, exp_requirements.min_years),
          career_progression_score |-> CareerTrajectoryScore(experience_data),
          industry_relevance |-> IndustryRelevance(experience_data, job_text),
          leadership_experience |-> AssessLeadershipExperience(experience_data),
          achievement_density |-> <<Len(experience_data.key_achievements), Max(1, actual)>>,
          career_stability |-> AssessCareerStability(experience_data),
          required_experience |-> exp_requirements.min_years,
          actual_experience |-> actual ]
  IN Local1(Body, ExtractExperienceRequirements(job_text))

-----------------------------------------------------------------------------
(* ml_model.py: qualification fit, cultural fit, achievements *)

qualification_keywords == <<
  [level |-> "phd",       keywords |-> <<"phd">>],
  [level |-> "masters",   keywords |-> <<"ma">>],
  [level |-> "bachelors", keywords |-> <<"degree", "ba">>],
  [level |-> "diploma",   keywords |-> <<"diploma">>] >>

\* _extract_required_qualification_level_advanced
RECURSIVE RequiredLevelIn(_, _)
RequiredLevelIn(t, k) ==
  IF k > Len(qualification_keywords) THEN ""
  ELSE IF \E w \in Range(qualification_keywords[k].keywords) : Contains(t, Spell[w])
       THEN qualification_keywords[k].level
       ELSE RequiredLevelIn(t, k + 1)

ExtractRequiredQualificationLevel(job_text) == Local1(LAMBDA t : RequiredLevelIn(t, 1), Lower(job_text))

field_keywords == <<
  [field |-> "computer science", keywords |-> <<"cs">>],
  [field |-> "business",         keywords |-> <<"business">>],
  [field |-> "engineering",      keywords |-> <<"engineering">>],
  [field |-> "mathematics",      keywords |-> <<"math">>],
  [field |-> "finance",          keywords |-> <<"finance", "bank">>] >>

\* _extract_field_requirements_advanced
RECURSIVE FieldsIn(_, _)
FieldsIn(t, k) ==
  IF k > Len(field_keywords) THEN <<>>
  ELSE (IF \E w \in Range(field_keywords[k].keywords) : Contains(t, Spell[w])
        THEN <<field_keywords[k].field>> ELSE <<>>) \o FieldsIn(t, k + 1)

\* _analyze_field_relevance_advanced, in hundredths
FieldRelevance(qualifications, job_text) ==
  LET job_fields == Local1(LAMBDA t : FieldsIn(t, 1), Lower(job_text))
      candidate_fields == qualifications.fields_of_study
      overlap == Range(job_fields) \cap Range(candidate_fields)
      bonus == IF Len(candidate_fields) > 1
               THEN Min(20, (Len(candidate_fields) - 1) * 5) ELSE 0
  IN IF job_fields = <<>> \/ candidate_fields = <<>> THEN 5000
     ELSE Min(RoundHalfEven(Cardinality(overlap) * 1000000 + bonus * 10000 * Len(job_fields),
                            100 * Len(job_fields)), 10000)

\* _analyze_qualification_fit_advanced
AnalyzeQualificationFit(qualifications, job_text) ==
  LET required_level == ExtractRequiredQualificationLevel(job_text)
      candidate_level == qualifications.qualification_level
      candidate_score == Get(level_scores, candidate_level, 30)
      required_score == Get(level_scores, required_level, 50)
  IN [ qualification_sufficiency |-> candidate_score >= required_score,
       qualification_gap |-> Max(0, required_score - candidate_score),
       qualification_score |-> candidate_score,
       required_level_score |-> required_score,
       field_relevance |-> FieldRelevance(qualifications, job_text),
       candidate_level |-> candidate_level,
       required_level |-> required_level ]

\* _extract_culture_indicators_advanced
ExtractCultureIndicators(job_text) ==
  LET Indicators(t) ==
        SelectSeqOf(culture_keywords,
                    { w \in Range(culture_keywords) : Contains(t, Spell[w]) })
  IN Local1(Indicators, Lower(job_text))

\* _calculate_adaptability_score_advanced
AdaptabilityScore(profile) ==
  LET industry_count == Len(profile.experience.industry_sectors)
      skill_diversity == profile.skills.skill_diversity
      companies_count == Len(profile.experience.companies_worked)
      score == 50 + Min(20, industry_count * 5) + Min(20, skill_diversity * 2)
                 + (IF profile.experience.career_progression # <<>> THEN 10 ELSE 0)
                 + Min(10, companies_count * 2)
  IN Min(score, 100)

\* _assess_longevity_potential_advanced
LongevityPotential(profile) ==
  LET total_experience == profile.experience.total_experience_years
      career_progression == profile.experience.career_progression
      n == Len(career_progression)
  IN IF total_experience < 2 THEN 40
     ELSE IF career_progression # <<>>
          THEN (IF total_experience >= 3 * n THEN 90
                ELSE IF total_experience >= 2 * n THEN 75
                ELSE IF total_experience >= n THEN 60
                ELSE 45)
          ELSE 50

\* _assess_team_fit: (comprehensive match + sufficiency score) / 2, a fraction
AssessTeamFit(profile, job_text, seed) ==
  LET Body(skill_match, experience_match) ==
        <<skill_match.comprehensive_match_percentage * experience_match.experience_sufficiency_score[2]
            + 100 * experience_match.experience_sufficiency_score[1],
          200 * experience_match.experience_sufficiency_score[2]>>
  IN Local2(Body, AnalyzeSkillFit(profile.skills, job_text, seed),
                  AnalyzeExperienceFit(profile.experience, job_text))

\* _analyze_cultural_fit_advanced
AnalyzeCulturalFit(profile, job_text, seed) ==
  [ culture_alignment |-> Len(ExtractCultureIndicators(job_text)) * 10,
    adaptability_score |-> AdaptabilityScore(profile),
    potential_longevity |-> LongevityPotential(profile),
    team_fit |-> AssessTeamFit(profile, job_text, seed) ]

\* _analyze_achievements_impact
AnalyzeAchievementsImpact(awards_data) ==
  LET total_achievements ==
        Len(awards_data.awards) + Len(awards_data.certifications) + Len(awards_data.honors)
          + Len(awards_data.publications) + Len(awards_data.patents)
  IN [ achievement_score |-> Min(100, total_achievements * 15),
       total_achievements |-> total_achievements,
       has_awards |-> Len(awards_data.awards) > 0,
       has_certifications |-> Len(awards_data.certifications) > 0,
       has_publications |-> Len(awards_data.publications) > 0 ]

-----------------------------------------------------------------------------
(* ml_model.py: overall score, labels, questions *)

\* the weights with skill and experience exchanged
weightsExchanged ==
  [ skill_match |-> 30, experience |-> 40, qualifications |-> 15,
    cultural_fit |-> 10, achievements |-> 5 ]

\* weights of _calculate_comprehensive_score, in percent
weights ==
  [ skill_match |-> 40, experience |-> 30, qualifications |-> 15,
    cultural_fit |-> 10, achievements |-> 5 ]

\* the experience term taken as the mean of the sufficiency score and the
\* career progression score
CalculateComprehensiveScoreWithTrajectory(skill_fit, experience_fit, qualification_fit, cultural_fit, achievements_impact) ==
  LET skill_score == skill_fit.comprehensive_match_percentage
      e == experience_fit.experience_sufficiency_score
      qualification_score == qualification_fit.qualification_score
      cultural_twice == cultural_fit.culture_alignment + cultural_fit.adaptability_score
      achievements_score == achievements_impact.achievement_score
      num == 2 * e[2] * skill_score * weights.skill_match
             + (100 * e[1] + e[2] * experience_fit.career_progression_score) * weights.experience
             + 200 * e[2] * qualification_score * weights.qualifications
             + 100 * e[2] * cultural_twice * weights.cultural_fit
             + 200 * e[2] * achievements_score * weights.achievements
  IN RoundHalfEven(num, 200 * e[2])

(* _calculate_comprehensive_score, in hundredths.  The skill score is in    *)
(* hundredths, the experience score a fraction e[1]/e[2], the cultural      *)
(* score (culture_alignment + adaptability_score) / 2; everything is put    *)
(* over the denominator 200 * e[2] before the rounding to 2 decimals.       *)
CalculateComprehensiveScore(skill_fit, experience_fit, qualification_fit, cultural_fit, achievements_impact) ==
  LET skill_score == skill_fit.comprehensive_match_percentage
      e == experience_fit.experience_sufficiency_score
      qualification_score == qualification_fit.qualification_score
      cultural_twice == cultural_fit.culture_alignment + cultural_fit.adaptability_score
      achievements_score == achievements_impact.achievement_score
      num == 2 * e[2] * skill_score * weights.skill_match
             + 200 * e[1] * weights.experience
             + 200 * e[2] * qualification_score * weights.qualifications
             + 100 * e[2] * cultural_twice * weights.cultural_fit
             + 200 * e[2] * achievements_score * weights.achievements
  IN RoundHalfEven(num, 200 * e[2])

\* the tiers with their lower ends left out (> for >=)
GenerateDetailedRecommendationStrict(score, skill_fit, experience_fit) ==
  LET skill_match == skill_fit.comprehensive_match_percentage
  IN IF score > 9000 THEN "TOP CANDIDATE"
     ELSE IF score > 8000 THEN "STRONG RECOMMEND"
     ELSE IF score > 7000 THEN "RECOMMEND"
     ELSE IF score > 6000
          THEN (IF skill_match > 7000 THEN "SKILL-FOCUSED CANDIDATE"
                ELSE "EXPERIENCED CANDIDATE")
     ELSE IF score > 5000 THEN "BORDERLINE CANDIDATE"
     ELSE "NOT RECOMMENDED"

\* _generate_detailed_recommendation (score and skill match in hundredths)
GenerateDetailedRecommendation(score, skill_fit, experience_fit) ==
  LET skill_match == skill_fit.comprehensive_match_percentage
  IN IF score >= 9000 THEN "TOP CANDIDATE"
     ELSE IF score >= 8000 THEN "STRONG RECOMMEND"
     ELSE IF score >= 7000 THEN "RECOMMEND"
     ELSE IF score >= 6000
          THEN (IF skill_match >= 7000 THEN "SKILL-FOCUSED CANDIDATE"
                ELSE "EXPERIENCED CANDIDATE")
     ELSE IF score >= 5000 THEN "BORDERLINE CANDIDATE"
     ELSE "NOT RECOMMENDED"

\* _generate_targeted_questions
GenerateTargetedQuestions(profile, job_text) ==
  LET skill_gaps == IF "skill_analysis" \in DOMAIN profile
                    THEN profile.skill_analysis.critical_skill_gaps ELSE <<>>
      experience_data == profile.experience
      industries == experience_data.industry_sectors
      questions ==
        (IF skill_gaps # <<>>
         THEN <<[q |-> "skill gaps", about |-> SubSeq(skill_gaps, 1, Min(2, Len(skill_gaps)))]>>
         ELSE <<>>)
        \o (IF experience_data.total_experience_years < 3
            THEN <<[q |-> "ramp up", about |-> <<>>]>> ELSE <<>>)
        \o (IF Len(experience_data.career_progression) > 0
            THEN <<[q |-> "career progression", about |-> <<>>]>> ELSE <<>>)
        \o (IF experience_data.key_achievements # <<>>
            THEN <<[q |-> "achievements", about |-> <<>>]>> ELSE <<>>)
        \o (IF industries # <<>>
            THEN <<[q |-> "industry", about |-> <<industries[1]>>]>> ELSE <<>>)
        \o << [q |-> "challenging project", about |-> <<>>],
              [q |-> "industry trends", about |-> <<>>],
              [q |-> "attraction to role", about |-> <<>>] >>
  IN SubSeq(questions, 1, Min(6, Len(questions)))

Take(s, n) == SubSeq(s, 1, Min(n, Len(s)))

\* _identify_strengths_weaknesses
IdentifyStrengthsWeaknesses(profile, job_text, seed) ==
  LET experience_data == profile.experience
      exp_ok == experience_data.total_experience_years >= 3
      Body(skill_analysis) ==
        LET skill_ok == skill_analysis.comprehensive_match_percentage >= 7000
            strengths ==
              (IF skill_ok
               THEN <<[s |-> "Strong skills alignment",
                       detail |-> <<skill_analysis.comprehensive_match_percentage>>]>>
               ELSE <<>>)
              \o (IF exp_ok
                  THEN <<[s |-> "Substantial professional experience",
                          detail |-> <<experience_data.total_experience_years>>]>>
                  ELSE <<>>)
              \o (IF profile.qualifications.qualification_level \in {"masters", "phd"}
                  THEN <<[s |-> "Advanced educational qualifications", detail |-> <<>>]>> ELSE <<>>)
              \o (IF experience_data.promotion_trajectory = "Stable Progression"
                  THEN <<[s |-> "Stable career progression", detail |-> <<>>]>> ELSE <<>>)
            weaknesses ==
              (IF skill_ok THEN <<>>
               ELSE <<[s |-> "Skill gaps in", detail |-> Take(skill_analysis.critical_skill_gaps, 3)]>>)
              \o (IF exp_ok THEN <<>>
                  ELSE <<[s |-> "Limited professional experience", detail |-> <<>>]>>)
        IN [ strengths |-> Take(strengths, 4),
             weaknesses |-> Take(weaknesses, 3),
             development_areas |-> Take(skill_analysis.critical_skill_gaps, 3) ]
  IN Local1(Body, AnalyzeSkillFit(profile.skills, job_text, seed))

\* _identify_resume_strengths
IdentifyResumeStrengths(profile) ==
  (IF profile.experience.total_experience_years >= 3
   THEN <<"Clear career progression and substantial experience">> ELSE <<>>)
  \o (IF profile.skills.total_skills >= 15
      THEN <<"Diverse and comprehensive skill set">> ELSE <<>>)
  \o (IF profile.qualifications.highest_qualification # ""
      THEN <<"Well-documented educational background">> ELSE <<>>)
  \o (IF profile.awards_certifications.awards # <<>>
         \/ profile.awards_certifications.certifications # <<>>
      THEN <<"Notable professional achievements and certifications">> ELSE <<>>)

\* _identify_resume_improvements
IdentifyResumeImprovements(profile) ==
  (IF profile.experience.total_experience_years < 2
   THEN <<"Could benefit from more detailed project descriptions">> ELSE <<>>)
  \o (IF profile.skills.total_skills < 8
      THEN <<"Consider expanding technical and professional skills section">> ELSE <<>>)
  \o (IF profile.qualifications.highest_qualification = ""
      THEN <<"Include educational qualifications if applicable">> ELSE <<>>)

\* _generate_quality_analysis_advanced
GenerateQualityAnalysis(profile) ==
  LET experience_years == profile.experience.total_experience_years
      total_skills == profile.skills.total_skills
      has_qualification == profile.qualifications.highest_qualification # ""
      awards == profile.awards_certifications
      total_achievements == Len(awards.awards) + Len(awards.certifications) + Len(awards.honors)
      quality_score ==
        65 + (IF experience_years > 2 THEN 10 ELSE 0) + (IF experience_years > 5 THEN 5 ELSE 0)
           + (IF total_skills > 10 THEN 10 ELSE 0) + (IF total_skills > 20 THEN 5 ELSE 0)
           + (IF has_qualification THEN 10 ELSE 0)
           + (IF total_achievements > 0 THEN Min(10, total_achievements * 2) ELSE 0)
  IN [ overall_score |-> Min(quality_score, 100),
       section_scores |->
         [ Experience |-> Min(100, experience_years * 8 + 40),
           Skills |-> Min(100, total_skills * 3),
           Education |-> IF has_qualification THEN 100 ELSE 50,
           Achievements |-> Min(100, total_achievements * 20) ],
       strengths |-> IdentifyResumeStrengths(profile),
       improvements |-> IdentifyResumeImprovements(profile),
       ats_compatibility |-> 80 ]

\* the priority with "low" from 60 on
DetermineInterviewPriorityFromSixty(score) ==
  IF score >= 8500 THEN "HIGH PRIORITY"
  ELSE IF score >= 7000 THEN "MEDIUM PRIORITY"
  ELSE IF score >= 6000 THEN "LOW PRIORITY"
  ELSE "NOT RECOMMENDED"

\* _determine_interview_priority_advanced (score in hundredths)
DetermineInterviewPriority(score) ==
  IF score >= 8500 THEN "HIGH PRIORITY"
  ELSE IF score >= 7000 THEN "MEDIUM PRIORITY"
  ELSE IF score >= 5500 THEN "LOW PRIORITY"
  ELSE "NOT RECOMMENDED"

\* _generate_comprehensive_recommendation_advanced
GenerateComprehensiveRecommendation(job_fit, quality) ==
  LET overall_score == job_fit.overall_score
      quality_score == quality.overall_score
  IN IF overall_score >= 8500 /\ quality_score >= 80 THEN "EXCEPTIONAL CANDIDATE"
     ELSE IF overall_score >= 7500 THEN "STRONG CANDIDATE"
     ELSE IF overall_score >= 6000 THEN "PROMISING CANDIDATE"
     ELSE IF overall_score >= 5000 THEN "DEVELOPMENT CANDIDATE"
     ELSE "NOT SUITABLE"


RequiredKeys == {"skills", "experience", "qualifications", "awards_certifications"}

\* analyze_candidate_fit
AnalyzeCandidateFit(profile, job_text, seed) ==
  LET Body(fits, impacts) ==
        LET skill_fit == fits[1]
            experience_fit == fits[2]
            qualification_fit == impacts[1]
            cultural_fit == impacts[2]
            achievements_impact == impacts[3]
            Result(overall_score) ==
              [ overall_score |-> overall_score,
                skill_analysis |-> skill_fit,
                experience_analysis |-> experience_fit,
                qualification_analysis |-> qualification_fit,
                cultural_fit |-> cultural_fit,
                achievements_impact |-> achievements_impact,
                hiring_recommendation |->
                    GenerateDetailedRecommendation(overall_score, skill_fit, experience_fit),
                interview_questions |-> GenerateTargetedQuestions(profile, job_text),
                strengths_weaknesses |-> IdentifyStrengthsWeaknesses(profile, job_text, seed) ]
        IN Local1(Result, CalculateComprehensiveScore(skill_fit, experience_fit, qualification_fit,
                                                      cultural_fit, achievements_impact))
  IN Local2(Body,
            << AnalyzeSkillFit(profile.skills, job_text, seed),
               AnalyzeExperienceFit(profile.experience, job_text) >>,
            << AnalyzeQualificationFit(profile.qualifications, job_text),
               AnalyzeCulturalFit(profile, job_text, seed),
               AnalyzeAchievementsImpact(profile.awards_certifications) >>)

\* the exception a scoring call raises, "none" if it returns
ScoringFault(profile, job_text, seed) ==
  IF ~(RequiredKeys \subseteq DOMAIN profile) THEN "KeyError"
  ELSE AnalyzeSkillFit(profile.skills, job_text, seed).fault

\* generate_comprehensive_report, after its call of analyze_candidate_fit
AssembleReport(job_fit_analysis, quality_analysis, profile) ==
  [ job_fit_analysis |->
      [ compatibility_score |-> job_fit_analysis.overall_score,
        skill_match |-> job_fit_analysis.skill_analysis.match_percentage,
        experience_match |-> job_fit_analysis.experience_analysis.experience_sufficiency_score,
        education_match |-> job_fit_analysis.qualification_analysis.qualification_score,
        matching_skills |-> job_fit_analysis.skill_analysis.exact_matches,
        missing_skills |-> job_fit_analysis.skill_analysis.critical_skill_gaps,
        skill_match_breakdown |-> job_fit_analysis.skill_analysis.category_breakdown,
        fit_analysis |-> job_fit_analysis.hiring_recommendation ],
    quality_analysis |-> quality_analysis,
    interview_priority |-> DetermineInterviewPriority(job_fit_analysis.overall_score),
    recommendation |-> GenerateComprehensiveRecommendation(job_fit_analysis, quality_analysis),
    interview_questions |-> job_fit_analysis.interview_questions,
    strengths_weaknesses |-> job_fit_analysis.strengths_weaknesses,
    resume_code |-> Get(profile, "resume_code", "N/A"),
    confidential_lookup |->
        <<"Use phone number with resume code: ", Get(profile, "resume_code", "N/A")>> ]

(* generate_comprehensive_report: what the call leaves with its caller, the *)
(* exception it raised or the report; analysis is the value of its local    *)
(* job_fit_analysis, the result of analyze_candidate_fit.                   *)
GenerateComprehensiveReport(job_text, profile, seed) ==
  LET Body(job_fit_analysis, quality_analysis) ==
        [ fault |-> "none",
          analysis |-> job_fit_analysis,
          report |-> AssembleReport(job_fit_analysis, quality_analysis, profile) ]
  IN IF ScoringFault(profile, job_text, seed) # "none"
     THEN [fault |-> ScoringFault(profile, job_text, seed)]
     ELSE Local2(Body, AnalyzeCandidateFit(profile, job_text, seed),
                       GenerateQualityAnalysis(profile))

-----------------------------------------------------------------------------
(* nlp_processor.py: the metrics extract_experience_advanced derives from   *)
(* the positions it found                                                   *)

\* _calculate_total_experience_advanced
RECURSIVE SumPositiveDurations(_)
SumPositiveDurations(positions) ==
  IF positions = <<>> THEN 0
  ELSE (IF positions[1].duration_years > 0 THEN positions[1].duration_years ELSE 0)
       + SumPositiveDurations(Tail(positions))

CalculateTotalExperience(positions) ==
  IF positions = <<>> THEN 0 ELSE Min(SumPositiveDurations(positions), 50)

\* the buckets with their upper ends included
DetermineExperienceLevelInclusive(tenths) ==
  IF tenths <= 10 THEN "Entry Level (0-1 years)"
  ELSE IF tenths <= 30 THEN "Junior Level (1-3 years)"
  ELSE IF tenths <= 70 THEN "Mid Level (3-7 years)"
  ELSE IF tenths <= 150 THEN "Senior Level (7-15 years)"
  ELSE "Executive Level (15+ years)"

\* _determine_experience_level_advanced; the years are given in tenths
DetermineExperienceLevel(tenths) ==
  IF tenths < 10 THEN "Entry Level (0-1 years)"
  ELSE IF tenths < 30 THEN "Junior Level (1-3 years)"
  ELSE IF tenths < 70 THEN "Mid Level (3-7 years)"
  ELSE IF tenths < 150 THEN "Senior Level (7-15 years)"
  ELSE "Executive Level (15+ years)"

\* _detect_career_gaps: the positions of less than half a year
DetectCareerGaps(positions) ==
  IF Len(positions) < 2 THEN 0
  ELSE Cardinality({ i \in 1..Len(positions) : 2 * positions[i].duration_years < 1 })

\* _analyze_career_trajectory
AnalyzeCareerTrajectory(positions) ==
  LET position_count == Len(positions)
      total == SumSeq([i \in 1..Len(positions) |-> positions[i].duration_years])
  IN IF position_count < 2 THEN "Early Career"
     ELSE IF total >= 3 * position_count THEN "Stable Progression"
     ELSE IF 2 * total >= 3 * position_count THEN "Steady Growth"
     ELSE "Rapid Movement"

\* experience['industry_sectors']: the sectors of the lines, first occurrences
RECURSIVE SectorsOf(_, _)
SectorsOf(lines, seen) ==
  IF lines = <<>> THEN <<>>
  ELSE IF lines[1].sector # "" /\ lines[1].sector \notin seen
       THEN <<lines[1].sector>> \o SectorsOf(Tail(lines), seen \cup {lines[1].sector})
       ELSE SectorsOf(Tail(lines), seen)

(* positions of extract_experience_advanced, from the k-th examined line on: *)
(* a line with position_info appends the pending current_position (none or  *)
(* one, here a sequence of length 0 or 1) and becomes the pending one; the   *)
(* pending one is appended after the loop.  A position's description is the *)
(* text _extract_position_info was given, the line itself.                  *)
RECURSIVE Positions(_, _, _)
Positions(lines, k, current_position) ==
  IF k > Len(lines) THEN current_position
  ELSE IF lines[k].dates # ""
       THEN current_position
            \o Positions(lines, k + 1,
                  << [ position |-> lines[k].position, company |-> lines[k].company,
                       dates |-> lines[k].dates, duration_years |-> lines[k].duration_years,
                       description |-> lines[k].description ] >>)
       ELSE Positions(lines, k + 1, current_position)

\* extract_experience_advanced after the line scan; lines are the lines the
\* scan examined, each with what the per-line extractors return for it
ExperienceOf(lines, seed) ==
  LET positions == Positions(lines, 1, <<>>)
  IN [ total_experience_years |-> CalculateTotalExperience(positions),
       experience_level |-> DetermineExperienceLevel(10 * CalculateTotalExperience(positions)),
       career_gaps |-> DetectCareerGaps(positions),
       industry_sectors |-> SectorsOf(lines, {}),
       key_achievements |-> SelectSeq([i \in 1..Len(lines) |-> lines[i].achievement], LAMBDA a : a # ""),
       career_progression |-> positions,
       companies_worked |-> ListOfSet({ positions[i].company : i \in 1..Len(positions) } \ {""}, seed),
       positions_held |-> ListOfSet({ positions[i].position : i \in 1..Len(positions) } \ {""}, seed),
       promotion_trajectory |-> AnalyzeCareerTrajectory(positions) ]

-----------------------------------------------------------------------------
(* nlp_processor.py: text of a file, phone number, confidential code *)

Letters ==
  { "a","b","c","d","e","f","g","h","i","j","k","l","m","n","o","p","q","r","s",
    "t","u","v","w","x","y","z","A","B","C","D","E","G","L","M","P","S","T" }

\* the characters \w matches
WordChars == Letters \cup Digits \cup {"_"}

\* \b at position i: exactly one of the characters before and at i is a \w
Boundary(t, i) ==
  (i > 1 /\ t[i - 1] \in WordChars) # (i <= Len(t) /\ t[i] \in WordChars)

\* the string of the model that is spelled t
Str(t) == CHOOSE s \in DOMAIN Spell : Spell[s] = t

\* str.split('\n')
RECURSIVE SplitLines(_)
SplitLines(t) ==
  LET breaks == { i \in 1..Len(t) : t[i] = "\n" }
  IN IF breaks = {} THEN <<t>>
     ELSE LET i == CHOOSE b \in breaks : \A c \in breaks : b <= c
          IN <<SubSeq(t, 1, i - 1)>> \o SplitLines(SubSeq(t, i + 1, Len(t)))

\* str.strip()
Strip(t) ==
  LET solid == { i \in 1..Len(t) : t[i] \notin Whitespace }
  IN IF solid = {} THEN <<>>
     ELSE SubSeq(t, CHOOSE a \in solid : \A b \in solid : a <= b,
                    CHOOSE a \in solid : \A b \in solid : a >= b)

\* any(keyword in text for keyword in keywords)
AnyIn(keywords, t) == \E k \in 1..Len(keywords) : Contains(t, Spell[keywords[k]])

\* the positions at which \bw\b matches in t
WordStarts(t, w) ==
  { i \in 1..(Len(t) - Len(w) + 1) :
      /\ SubSeq(t, i, i + Len(w) - 1) = w
      /\ Boundary(t, i)
      /\ Boundary(t, i + Len(w)) }

\* the text of the first n blocks: text += block + "\n"
RECURSIVE BlocksText(_, _)
BlocksText(blocks, n) ==
  IF n = 0 THEN <<>>
  ELSE BlocksText(blocks, n - 1) \o Spell[blocks[n]] \o <<"\n">>

(* extract_text_from_file.  A file is its type, its blocks (the pages of a  *)
(* PDF, the paragraphs of a DOCX without tables) and the number of blocks   *)
(* the reader yields before it raises (all of them if it does not raise);   *)
(* the exception is caught and the text gathered so far is returned.        *)
ExtractTextFromFile(file) ==
  IF file.file_type \in {"pdf", "docx"} THEN BlocksText(file.blocks, file.read) ELSE <<>>

Rep(cls, lo, hi) == [cls |-> cls, lo |-> lo, hi |-> hi]

PhoneSeparators == {"-", ".", " ", "\n", "\t"}

(* phone_patterns 1, 2, 4 and 5.  Pattern 3 never yields a number: findall  *)
(* returns its only group, at most 3 digits with a sign and a separator,    *)
(* which is shorter than the 7 characters a number needs.                   *)
phone_patterns == <<
  [ bounded |-> FALSE,
    items |-> Word(<<"+", "2", "6", "3">>)
              \o << Opt(Whitespace), Rep(Digits, 2, 2), Opt(Whitespace), Rep(Digits, 3, 3),
                    Opt(Whitespace), Rep(Digits, 3, 4) >> ],
  [ bounded |-> FALSE,
    items |-> Word(<<"0", "7">>)
              \o << Rep({"1", "2", "3", "4", "5", "6", "7", "8"}, 1, 1), Opt(Whitespace),
                    Rep(Digits, 3, 3), Opt(Whitespace), Rep(Digits, 3, 4) >> ],
  [ bounded |-> TRUE,
    items |-> << Rep(Digits, 3, 3), Opt(PhoneSeparators), Rep(Digits, 3, 3),
                 Opt(PhoneSeparators), Rep(Digits, 4, 4) >> ],
  [ bounded |-> TRUE,
    items |-> << Rep(Digits, 4, 4), Opt(PhoneSeparators), Rep(Digits, 3, 3),
                 Opt(PhoneSeparators), Rep(Digits, 3, 3) >> ] >>

\* the ends of the matches of a phone pattern that start at position i
PhoneEnds(pattern, t, i) ==
  IF pattern.bounded
  THEN IF Boundary(t, i)
       THEN { j \in MatchEnds(pattern.items, 1, t, i) : Boundary(t, j) }
       ELSE {}
  ELSE MatchEnds(pattern.items, 1, t, i)

\* re.sub(r'[^\d+]', '', match)
CleanPhone(match) == SelectSeq(match, LAMBDA c : c \in Digits \cup {"+"})

\* extract_phone_number: the first match of the first pattern that has one
\* (every match of these patterns has between 7 and 15 digits)
RECURSIVE PhoneFrom(_, _)
PhoneFrom(t, k) ==
  IF k > Len(phone_patterns) THEN <<>>
  ELSE LET starts == { i \in 1..Len(t) : PhoneEnds(phone_patterns[k], t, i) # {} }
       IN IF starts = {} THEN PhoneFrom(t, k + 1)
          ELSE LET i == CHOOSE a \in starts : \A b \in starts : a <= b
                   ends == PhoneEnds(phone_patterns[k], t, i)
                   j == CHOOSE a \in ends : \A b \in ends : a >= b
               IN CleanPhone(SubSeq(t, i, j - 1))

ExtractPhoneNumber(text) == PhoneFrom(text, 1)

\* hashlib.sha256(phone).hexdigest()[:8].upper() of the phone numbers of the model
sha256_hex8 ==
  Spell["0771234567"] :> "CD581CA1" @@
  Spell["0712345678"] :> "107FA9E7"

\* the 500 of text[:500]
PrefixLength == 500

Filler(n) == [i \in 1..n |-> "a"]

\* hashlib.md5(prefix).hexdigest()[:8].upper() of some prefixes
md5_hex8 ==
  Filler(500) :> "BE39BA69" @@
  (Filler(499) \o <<"x">>) :> "D7867F21" @@
  <<"a">> :> "0CC175B9" @@
  <<"b">> :> "92EB5FFE" @@
  <<>> :> "D41D8CD9"

\* a digest that is not tabulated is represented by the text it digests
Md5Hex8(prefix) ==
  IF prefix \in DOMAIN md5_hex8 THEN md5_hex8[prefix] ELSE <<"md5", prefix>>

\* strftime("%m%d") of a date <<year, month, day>>
StampMonthDay(date) == <<date[2] \div 10, date[2] % 10, date[3] \div 10, date[3] % 10>>

\* strftime("%d") of a date
StampDay(date) == <<date[3] \div 10, date[3] % 10>>

\* the timestamp of a phone-based code
Timestamp(date) == StampMonthDay(date)

\* generate_confidential_code: "CV-<hash>-<stamp>" or "CV-<hash>", its parts
GenerateConfidentialCode(phone_number, text, date) ==
  IF phone_number # <<>>
  THEN <<"CV", sha256_hex8[phone_number], Timestamp(date)>>
  ELSE <<"CV", Md5Hex8(SubSeq(text, 1, Min(Len(text), PrefixLength)))>>

-----------------------------------------------------------------------------
(* nlp_processor.py: date ranges and position durations.  The patterns are  *)
(* searched with re.IGNORECASE: they are matched on the lower-cased text    *)
(* and the match is cut out of the text as written.                         *)

\* the character U+2013 (an en dash), written by its name
EnDash == "en dash"

Dashes == {"-", EnDash}

LowerLetters ==
  { "a","b","c","d","e","f","g","h","i","j","k","l","m","n","o","p","q","r","s",
    "t","u","v","w","x","y","z" }

month_names ==
  <<"jan", "feb", "mar", "apr", "may", "jun", "jul", "aug", "sep", "oct", "nov", "dec">>

\* w is read at position i of t
PrefixAt(t, i, w) ==
  /\ i + Len(w) - 1 <= Len(t)
  /\ t[i] = w[1]
  /\ SubSeq(t, i, i + Len(w) - 1) = w

\* 20\d{2}
Year20 == <<Lit("2"), Lit("0"), Rep(Digits, 2, 2)>>

\* (?:20\d{2}|Present|Current|Now) read at position i: where it ends, 0 if
\* it is not there
RangeEndAt(t, i) ==
  IF MatchEnds(Year20, 1, t, i) # {} THEN i + 4
  ELSE IF PrefixAt(t, i, Spell["present"]) THEN i + 7
  ELSE IF PrefixAt(t, i, Spell["current"]) THEN i + 7
  ELSE IF PrefixAt(t, i, Spell["now"]) THEN i + 3
  ELSE 0

\* a start of a range (a year, a dash, white space) read at position i, then
\* the end of the range: where the match ends
YearRangeEnds(start, t, i) ==
  { RangeEndAt(t, e) : e \in MatchEnds(start, 1, t, i) } \ {0}

\* (Jan|Feb|...|Dec) read at position i
MonthAt(t, i) == \E m \in 1..Len(month_names) : PrefixAt(t, i, Spell[month_names[m]])

\* (Jan|...)[a-z]*\s*\d{4}[-\u2013]\s*(?:Jan|...)[a-z]*\s*\d{4} read at position i
MonthRangeEnds(t, i) ==
  IF ~MonthAt(t, i) THEN {}
  ELSE UNION { MatchEnds(<<Many(LowerLetters, 0, t), Many(Whitespace, 0, t), Rep(Digits, 4, 4)>>,
                         1, t, j + 3) :
               j \in { e \in MatchEnds(<<Many(LowerLetters, 0, t), Many(Whitespace, 0, t),
                                         Rep(Digits, 4, 4), Rep(Dashes, 1, 1),
                                         Many(Whitespace, 0, t)>>, 1, t, i + 3) :
                       MonthAt(t, e) } }

(* date_patterns, in order: for each, the ends of its matches that start at *)
(* position i.  The third pattern is an alternation at its top level: a     *)
(* month range, or one of the bare words Present, Current, Now.             *)
DatePatternEnds(p, t, i) ==
  CASE p = 1 -> YearRangeEnds(Year20 \o <<Rep(Dashes, 1, 1), Many(Whitespace, 0, t)>>, t, i)
    [] p = 2 -> YearRangeEnds(Year20 \o <<Many(Whitespace, 0, t), Rep(Dashes, 1, 1),
                                          Many(Whitespace, 0, t)>>, t, i)
    [] p = 3 -> IF MonthRangeEnds(t, i) # {} THEN MonthRangeEnds(t, i)
                ELSE IF PrefixAt(t, i, Spell["present"]) THEN {i + 7}
                ELSE IF PrefixAt(t, i, Spell["current"]) THEN {i + 7}
                ELSE IF PrefixAt(t, i, Spell["now"]) THEN {i + 3}
                ELSE {}
    [] p = 4 -> IF /\ Boundary(t, i)
                   /\ (PrefixAt(t, i, <<"1", "9">>) \/ PrefixAt(t, i, <<"2", "0">>))
                   /\ MatchEnds(<<Rep(Digits, 4, 4)>>, 1, t, i) # {}
                   /\ Boundary(t, i + 4)
                THEN {i + 4} ELSE {}

\* re.search(pattern, text, re.IGNORECASE).group() for the patterns from p on:
\* the leftmost match of the first pattern that matches, "" if none does
RECURSIVE DateFrom(_, _, _)
DateFrom(p, text, t) ==
  IF p > 4 THEN <<>>
  ELSE LET starts == { i \in 1..Len(t) : DatePatternEnds(p, t, i) # {} }
       IN IF starts = {} THEN DateFrom(p + 1, text, t)
          ELSE LET i == CHOOSE s \in starts : \A j \in starts : s <= j
                   e == CHOOSE x \in DatePatternEnds(p, t, i) : TRUE
               IN SubSeq(text, i, e - 1)

\* _extract_dates
ExtractDates(text) == Local2(LAMBDA x, t : DateFrom(1, x, t), text, Lower(text))

\* re.findall(r'20\d{2}|19\d{2}', dates) from position i on
RECURSIVE YearMatches(_, _)
YearMatches(dates, i) ==
  IF i > Len(dates) THEN <<>>
  ELSE IF /\ (PrefixAt(dates, i, <<"2", "0">>) \/ PrefixAt(dates, i, <<"1", "9">>))
          /\ MatchEnds(<<Rep(Digits, 4, 4)>>, 1, dates, i) # {}
       THEN <<SubSeq(dates, i, i + 3)>> \o YearMatches(dates, i + 4)
       ELSE YearMatches(dates, i + 1)

\* str.isdigit()
IsDigit(s) == s # <<>> /\ \A i \in 1..Len(s) : s[i] \in Digits

\* _calculate_position_duration; date is the date datetime.now() reads
CalculatePositionDuration(dates, date) ==
  LET year_matches == YearMatches(dates, 1)
  IN IF Len(year_matches) >= 2
     THEN (IF IsDigit(year_matches[2]) THEN ParseInt(year_matches[2]) ELSE date[1])
          - ParseInt(year_matches[1])
     ELSE 0

-----------------------------------------------------------------------------
(* nlp_processor.py: the extractors.  The keyword tables keep the entries   *)
(* that occur in some line of the model's documents and a few that occur in *)
(* none; an entry of the source that contains a kept one is left out, the   *)
(* kept one matching wherever it does.                                      *)

education_keywords == <<"education", "qualifications", "academic", "degrees">>

education_section_end ==
  <<"experience", "employment", "skills", "projects", "certifications", "professional">>

\* qualification_levels, in dictionary order; each word w stands for \bw\b
qualification_levels == <<
  [level |-> "phd",         words |-> <<"phd", "doctorate">>],
  [level |-> "masters",     words |-> <<"master", "msc", "ma", "mba">>],
  [level |-> "bachelors",   words |-> <<"bachelor", "bsc", "ba", "degree">>],
  [level |-> "diploma",     words |-> <<"diploma">>],
  [level |-> "certificate", words |-> <<"certificate", "certification", "certified">>],
  [level |-> "high_school", words |-> <<"high school">>] >>

\* _detect_qualification_level_advanced: the first level one of whose
\* patterns matches
RECURSIVE LevelFrom(_, _)
LevelFrom(text_lower, k) ==
  IF k > Len(qualification_levels) THEN ""
  ELSE IF \E w \in Range(qualification_levels[k].words) : WordStarts(text_lower, Spell[w]) # {}
       THEN qualification_levels[k].level
       ELSE LevelFrom(text_lower, k + 1)

DetectQualificationLevel(text) == Local1(LAMBDA t : LevelFrom(t, 1), Lower(text))

\* the fields of _extract_field_of_study_advanced, with field.title()
study_fields == <<
  [field |-> "computer science", title |-> "Computer Science"],
  [field |-> "mathematics",      title |-> "Mathematics"],
  [field |-> "education",        title |-> "Education"] >>

RECURSIVE FieldFrom(_, _)
FieldFrom(text_lower, k) ==
  IF k > Len(study_fields) THEN ""
  ELSE IF Contains(text_lower, Spell[study_fields[k].field]) THEN study_fields[k].title
       ELSE FieldFrom(text_lower, k + 1)

ExtractFieldOfStudy(text) == Local1(LAMBDA t : FieldFrom(t, 1), Lower(text))

institution_words == <<"university", "college", "institute", "school", "polytechnic">>

(* _extract_institution_advanced finds an institution: 'University of' and  *)
(* a word after it, or one of the other words with a word (and at most one  *)
(* white space) before it.  The institutions its list names one by one all  *)
(* match one of these patterns.                                             *)
InstitutionFound(text) ==
  LET Found(t) ==
        \/ \E i \in 1..Len(t) :
              /\ PrefixAt(t, i, Spell["university of "])
              /\ i + 14 <= Len(t)
              /\ t[i + 14] \in WordChars
        \/ \E k \in 1..Len(institution_words) : \E i \in 2..Len(t) :
              /\ PrefixAt(t, i, Spell[institution_words[k]])
              /\ \/ t[i - 1] \in WordChars
                 \/ (t[i - 1] \in Whitespace /\ i > 2 /\ t[i - 2] \in WordChars)
  IN Local1(Found, Lower(text))

\* _calculate_qualification_confidence, in hundredths
CalculateQualificationConfidence(text) ==
  Min(60 + (IF InstitutionFound(text) THEN 20 ELSE 0)
         + (IF ExtractFieldOfStudy(text) # "" THEN 10 ELSE 0)
         + (IF ExtractDates(text) # <<>> THEN 10 ELSE 0), 100)

\* the line loop with the section closed at its end instead of the loop left
RECURSIVE QualificationScanReopening(_, _, _)
QualificationScanReopening(lines, k, education_section) ==
  IF k > Len(lines) THEN <<>>
  ELSE LET line_clean == Strip(lines[k])
           line_lower == Lower(line_clean)
           qual_level == DetectQualificationLevel(line_clean)
       IN IF AnyIn(education_keywords, line_lower)
          THEN QualificationScanReopening(lines, k + 1, TRUE)
          ELSE IF ~education_section
          THEN QualificationScanReopening(lines, k + 1, FALSE)
          ELSE IF AnyIn(education_section_end, line_lower) /\ Len(line_clean) < 50
          THEN QualificationScanReopening(lines, k + 1, FALSE)
          ELSE (IF qual_level = "" THEN <<>>
                ELSE << [ text |-> Str(line_clean), level |-> qual_level,
                          field |-> ExtractFieldOfStudy(line_clean),
                          has_institution |-> InstitutionFound(line_clean),
                          dates |-> ExtractDates(line_clean),
                          confidence |-> CalculateQualificationConfidence(line_clean) ] >>)
               \o QualificationScanReopening(lines, k + 1, TRUE)

(* The line loop of extract_qualifications_advanced from line k on: the     *)
(* entries _extract_qualification_details returns (the institution is kept  *)
(* as whether one was found, which is all the confidence depends on).       *)
RECURSIVE QualificationScan(_, _, _)
QualificationScan(lines, k, education_section) ==
  IF k > Len(lines) THEN <<>>
  ELSE LET line_clean == Strip(lines[k])
           line_lower == Lower(line_clean)
           qual_level == DetectQualificationLevel(line_clean)
       IN IF AnyIn(education_keywords, line_lower)
          THEN QualificationScan(lines, k + 1, TRUE)
          ELSE IF ~education_section
          THEN QualificationScan(lines, k + 1, FALSE)
          ELSE IF AnyIn(education_section_end, line_lower) /\ Len(line_clean) < 50
          THEN <<>>
          ELSE (IF qual_level = "" THEN <<>>
                ELSE << [ text |-> Str(line_clean), level |-> qual_level,
                          field |-> ExtractFieldOfStudy(line_clean),
                          has_institution |-> InstitutionFound(line_clean),
                          dates |-> ExtractDates(line_clean),
                          confidence |-> CalculateQualificationConfidence(line_clean) ] >>)
               \o QualificationScan(lines, k + 1, TRUE)

level_priority ==
  [ phd |-> 6, masters |-> 5, bachelors |-> 4, diploma |-> 3, certificate |-> 2,
    high_school |-> 1 ]

\* the last entry of the greatest priority
LastOfHighest(all_qualifications) ==
  CHOOSE i \in 1..Len(all_qualifications) :
    \A j \in 1..Len(all_qualifications) :
        \/ level_priority[all_qualifications[j].level] < level_priority[all_qualifications[i].level]
        \/ (level_priority[all_qualifications[j].level] = level_priority[all_qualifications[i].level]
              /\ j <= i)

\* max(all_qualifications, key=priority): the first entry of the greatest priority
HighestQualification(all_qualifications) ==
  CHOOSE i \in 1..Len(all_qualifications) :
    \A j \in 1..Len(all_qualifications) :
        \/ level_priority[all_qualifications[j].level] < level_priority[all_qualifications[i].level]
        \/ (level_priority[all_qualifications[j].level] = level_priority[all_qualifications[i].level]
              /\ i <= j)

\* extract_qualifications_advanced
ExtractQualifications(text) ==
  LET Body(all_qualifications) ==
        IF all_qualifications = <<>>
        THEN [ highest_qualification |-> "", qualification_level |-> "",
               all_qualifications |-> <<>>, fields_of_study |-> <<>> ]
        ELSE [ highest_qualification |->
                 all_qualifications[HighestQualification(all_qualifications)].text,
               qualification_level |->
                 all_qualifications[HighestQualification(all_qualifications)].level,
               all_qualifications |-> all_qualifications,
               fields_of_study |->
                 SelectSeq([i \in 1..Len(all_qualifications) |-> all_qualifications[i].field],
                           LAMBDA f : f # "") ]
  IN Local1(Body, QualificationScan(SplitLines(text), 1, FALSE))

\* skill_keywords
skill_keywords == <<
  [category |-> "programming_languages", skills |-> <<"python", "go", "r", "sql">>],
  [category |-> "web_development",       skills |-> <<"django", "flask">>],
  [category |-> "databases",             skills |-> <<"mysql">>] >>

skills_section_words == <<"skills", "competencies">>

\* (skills|technical skills|competencies).*?<skill>, re.DOTALL
InSkillsSection(skill, text) ==
  \E k \in 1..Len(skills_section_words) :
    \E i \in 1..Len(text) :
      /\ i + Len(Spell[skills_section_words[k]]) - 1 <= Len(text)
      /\ SubSeq(text, i, i + Len(Spell[skills_section_words[k]]) - 1) = Spell[skills_section_words[k]]
      /\ Contains(SubSeq(text, i + Len(Spell[skills_section_words[k]]), Len(text)), skill)

BulletChars == {"-", "*"}

\* [bullet]\s*.*<skill>: a bullet, white space, then the skill on one line
InBulletList(skill, text) ==
  \E i \in 1..Len(text) :
    /\ text[i] \in BulletChars
    /\ \E a \in (i + 1)..RunEnd(text, i + 1, Whitespace) :
         \E j \in a..(Len(text) - Len(skill) + 1) :
           /\ SubSeq(text, j, j + Len(skill) - 1) = skill
           /\ \A x \in a..(j - 1) : text[x] # "\n"

\* the confidence without its two clamps: the frequency bonus and the sum
\* left as they come
SkillConfidenceUnclamped(skill, text, frequency) ==
  50 + (IF InSkillsSection(skill, text) THEN 30 ELSE 0)
     + (IF InBulletList(skill, text) THEN 10 ELSE 0)
     + (IF frequency > 1 THEN frequency * 5 ELSE 0)

\* _calculate_skill_confidence_advanced, in hundredths
SkillConfidence(skill, text, frequency) ==
  Min(50 + (IF InSkillsSection(skill, text) THEN 30 ELSE 0)
         + (IF InBulletList(skill, text) THEN 10 ELSE 0)
         + (IF frequency > 1 THEN Min(10, frequency * 5) ELSE 0),
      100)

\* the entries of one category, in the order of its keyword list
RECURSIVE CategoryEntries(_, _, _)
CategoryEntries(category, k, text_lower) ==
  IF k > Len(category.skills) THEN <<>>
  ELSE LET skill == category.skills[k]
           frequency == Cardinality(WordStarts(text_lower, Spell[skill]))
       IN (IF frequency = 0 THEN <<>>
           ELSE << [ skill |-> skill, category |-> category.category,
                     confidence |-> SkillConfidence(Spell[skill], text_lower, frequency),
                     frequency |-> frequency ] >>)
          \o CategoryEntries(category, k + 1, text_lower)

RECURSIVE FoundSkills(_, _)
FoundSkills(k, text_lower) ==
  IF k > Len(skill_keywords) THEN <<>>
  ELSE CategoryEntries(skill_keywords[k], 1, text_lower) \o FoundSkills(k + 1, text_lower)

\* extract_skills_comprehensive
ExtractSkills(text) ==
  LET Body(entries) ==
        [ skills_by_category |-> entries,
          total_skills |-> Len(entries),
          skill_diversity |-> Cardinality({ entries[i].category : i \in 1..Len(entries) }) ]
  IN Local1(Body, FoundSkills(1, Lower(text)))

experience_keywords == <<"experience", "employment", "career", "work history">>

experience_section_end ==
  <<"education", "skills", "projects", "certifications", "awards", "references", "personal">>

(* _extract_position_title and _extract_company_name on the lines of the    *)
(* model in which _extract_dates finds a date.                              *)
position_info ==
  "Developer at Acme 2018-2020" :> [position |-> "Developer", company |-> "Acme"] @@
  "Developer at Acme 2020-2018" :> [position |-> "Developer", company |-> "Acme"] @@
  "Developer at Acme 2000-2026" :> [position |-> "Developer", company |-> "Acme"] @@
  "Experienced Developer at Acme 2018-2020" :>
      [position |-> "Experienced Developer", company |-> "Acme"] @@
  "Team Lead, managed accounts at Globex Bank 2015-2020" :>
      [position |-> "Team Lead", company |-> "Globex"] @@
  "Employee of the year award 2019" :>
      [position |-> "Employee of the year award", company |-> ""] @@
  "Lead at Globex 2020-Present" :> [position |-> "Lead", company |-> "Globex"] @@
  "BSc Mathematics, Africa College 2014" :> [position |-> "BSc M", company |-> "Africa"]

\* what the scan keeps of a line in which no date is found (the source's None)
no_position == [position |-> "", company |-> "", dates |-> "", duration_years |-> 0]

\* _extract_position_info; date is the date datetime.now() reads
ExtractPositionInfo(line, date) ==
  LET Info(dates) ==
        IF dates = <<>> THEN no_position
        ELSE [ position |-> position_info[Str(line)].position,
               company |-> position_info[Str(line)].company,
               dates |-> Str(dates),
               duration_years |-> CalculatePositionDuration(dates, date) ]
  IN Local1(Info, ExtractDates(line))

achievement_indicators == <<"led", "managed", "developed", "won", "awarded">>

\* _is_achievement_advanced
IsAchievement(line) == AnyIn(achievement_indicators, Lower(line))

\* _clean_achievement: re.sub(r'^[bullets\s]+', '', text.strip()), kept if longer than 10
CleanAchievement(line) ==
  LET text == Strip(line)
      cleaned == SubSeq(text, RunEnd(text, 1, BulletChars \cup Whitespace), Len(text))
  IN IF Len(cleaned) > 10 THEN cleaned ELSE <<>>

\* industry_sectors, in dictionary order
industry_sectors == <<
  [sector |-> "technology", keywords |-> <<"software", "it", "developer">>],
  [sector |-> "finance",    keywords |-> <<"bank">>],
  [sector |-> "education",  keywords |-> <<"education", "academic", "college">>] >>

\* _detect_industry_sector_advanced
RECURSIVE SectorFrom(_, _)
SectorFrom(text_lower, k) ==
  IF k > Len(industry_sectors) THEN ""
  ELSE IF AnyIn(industry_sectors[k].keywords, text_lower) THEN industry_sectors[k].sector
       ELSE SectorFrom(text_lower, k + 1)

DetectIndustrySector(line) == Local1(LAMBDA t : SectorFrom(t, 1), Lower(line))

\* what the loop body of extract_experience_advanced reads from a line
LineFacts(line, date) ==
  LET Facts(position) ==
        [ position |-> position.position,
          company |-> position.company,
          dates |-> position.dates,
          duration_years |-> position.duration_years,
          sector |-> DetectIndustrySector(line),
          achievement |-> IF IsAchievement(line) THEN Str(CleanAchievement(line)) ELSE "",
          description |-> Str(line) ]
  IN Local1(Facts, ExtractPositionInfo(line, date))

\* the line loop with the section keywords looked for only while the section
\* is closed
RECURSIVE ExperienceScanHeadingOnce(_, _, _, _)
ExperienceScanHeadingOnce(lines, k, experience_section, date) ==
  IF k > Len(lines) THEN <<>>
  ELSE LET line_clean == Strip(lines[k])
           line_lower == Lower(line_clean)
       IN IF ~experience_section
          THEN ExperienceScanHeadingOnce(lines, k + 1, AnyIn(experience_keywords, line_lower), date)
          ELSE IF AnyIn(experience_section_end, line_lower) /\ Len(line_clean) < 50
          THEN <<>>
          ELSE <<LineFacts(line_clean, date)>>
               \o ExperienceScanHeadingOnce(lines, k + 1, TRUE, date)

\* the line loop of extract_experience_advanced from line k on: the lines
\* examined inside the experience section
RECURSIVE ExperienceScan(_, _, _, _)
ExperienceScan(lines, k, experience_section, date) ==
  IF k > Len(lines) THEN <<>>
  ELSE LET line_clean == Strip(lines[k])
           line_lower == Lower(line_clean)
       IN IF AnyIn(experience_keywords, line_lower)
          THEN ExperienceScan(lines, k + 1, TRUE, date)
          ELSE IF ~experience_section
          THEN ExperienceScan(lines, k + 1, FALSE, date)
          ELSE IF AnyIn(experience_section_end, line_lower) /\ Len(line_clean) < 50
          THEN <<>>
          ELSE <<LineFacts(line_clean, date)>> \o ExperienceScan(lines, k + 1, TRUE, date)

\* extract_experience_advanced
ExtractExperience(text, seed, date) ==
  ExperienceOf(ExperienceScan(SplitLines(text), 1, FALSE, date), seed)

\* award_indicators, in dictionary order
award_indicators == <<
  [category |-> "awards",         indicators |-> <<"award", "prize">>],
  [category |-> "certifications", indicators |-> <<"certification", "certified">>],
  [category |-> "honors",         indicators |-> <<"honor", "scholarship">>],
  [category |-> "publications",   indicators |-> <<"publication", "paper">>],
  [category |-> "patents",        indicators |-> <<"patent">>] >>

\* the records of one category, one for every line with an indicator of it
AwardRecords(lines, k) ==
  LET hits == SelectSeq(lines, LAMBDA line :
                          AnyIn(award_indicators[k].indicators, Lower(Strip(line))))
  IN [i \in 1..Len(hits) |->
        [ text |-> Str(Strip(hits[i])), confidence |-> 80,
          type |-> award_indicators[k].category ]]

\* extract_awards_certifications_advanced
ExtractAwards(text) ==
  LET Body(lines) ==
        [ awards |-> AwardRecords(lines, 1), certifications |-> AwardRecords(lines, 2),
          honors |-> AwardRecords(lines, 3), publications |-> AwardRecords(lines, 4),
          patents |-> AwardRecords(lines, 5) ]
  IN Local1(Body, SplitLines(text))

\* the 1500 of raw_text[:1500]
ProcessedTextLength == 1500

(* The body of the try block of parse_resume: what it returns, or the       *)
(* exception an extractor raises (fault names it, "none" if none does).     *)
ParseBody(file, date, seed, fault) ==
  LET Body(raw_text) ==
        IF raw_text = <<>>
        THEN [raised |-> "none", value |-> [error |-> "Could not extract text from file"]]
        ELSE IF fault # "none"
        THEN [raised |-> fault]
        ELSE LET phone_number == ExtractPhoneNumber(raw_text)
                 skills == ExtractSkills(raw_text)
             IN [ raised |-> "none",
                  value |->
                    [ resume_code |-> GenerateConfidentialCode(phone_number, raw_text, date),
                      phone_number |-> phone_number,
                      qualifications |-> ExtractQualifications(raw_text),
                      skills |-> skills,
                      experience |-> ExtractExperience(raw_text, seed, date),
                      awards_certifications |-> ExtractAwards(raw_text),
                      skills_list |->
                        [i \in 1..Len(skills.skills_by_category) |->
                           << skills.skills_by_category[i].skill,
                              skills.skills_by_category[i].category,
                              skills.skills_by_category[i].confidence >>],
                      processed_text |->
                        SubSeq(raw_text, 1, Min(Len(raw_text), ProcessedTextLength)) ] ]
  IN Local1(Body, ExtractTextFromFile(file))

\* a handler that lets the exception pass
Propagate(outcome) ==
  IF outcome.raised # "none" THEN [exception |-> outcome.raised] ELSE outcome.value

\* `except Exception as e: return {"error": ...}` of parse_resume
CatchAll(outcome) ==
  IF outcome.raised # "none"
  THEN [error |-> <<"Error parsing resume: ", outcome.raised>>]
  ELSE outcome.value

\* parse_resume
ParseResume(file, date, seed, fault) == CatchAll(ParseBody(file, date, seed, fault))

-----------------------------------------------------------------------------
(* The inputs of the scoring specification *)

JobPhrases == <<"Python", "sql", "excel", "agile django", "5+ years experience">>

\* the phrases with index in S, in order, joined with ", "
RECURSIVE JoinPhrases(_, _)
JoinPhrases(S, k) ==
  IF k > Len(JobPhrases) THEN <<>>
  ELSE IF k \in S
       THEN Spell[JobPhrases[k]]
            \o (IF \E j \in S : j > k THEN Spell[", "] ELSE <<>>)
            \o JoinPhrases(S, k + 1)
       ELSE JoinPhrases(S, k + 1)

JobTexts ==
  { JoinPhrases(S, 1) : S \in { T \in SUBSET (1..Len(JobPhrases)) : Cardinality(T) <= MaxJobPhrases } }

\* skill entries as extract_skills_comprehensive returns them, in its order
SkillEntryPool == <<
  [skill |-> "python", category |-> "programming_languages", confidence |-> 80, frequency |-> 1],
  [skill |-> "sql",    category |-> "programming_languages", confidence |-> 90, frequency |-> 2],
  [skill |-> "django", category |-> "web_development",       confidence |-> 80, frequency |-> 1] >>

SkillsOf(S) ==
  LET entries == SelectSeqOf(SkillEntryPool, { SkillEntryPool[i] : i \in S })
  IN [ skills_by_category |-> entries,
       total_skills |-> Len(entries),
       skill_diversity |-> Cardinality({ entries[i].category : i \in 1..Len(entries) }) ]

\* lines of an experience section, with what the extractor reads from each
ExperienceLinePool ==
  { LineFacts(Spell[s], <<2026, 1, 1>>) :
      s \in {"Developer at Acme 2018-2020", "Team Lead, managed accounts at Globex Bank 2015-2020"} }

ExperienceLineSeqs ==
  UNION { [1..n -> ExperienceLinePool] : n \in 0..MaxPositions }

\* the education and awards lines of a resume, with what the extractors read
AwardLine == [text |-> "Employee of the year award 2019", confidence |-> 80, type |-> "awards"]

AwardsOf(n) ==
  [ awards |-> [i \in 1..n |-> AwardLine], certifications |-> <<>>, honors |-> <<>>,
    publications |-> <<>>, patents |-> <<>> ]

CredentialPool == {
  [ qualifications |-> [ highest_qualification |-> "", qualification_level |-> "",
                         fields_of_study |-> <<>> ],
    awards_certifications |-> AwardsOf(0) ],
  [ qualifications |-> [ highest_qualification |-> "Bachelor of Science in Computer Science 2014",
                         qualification_level |-> "bachelors",
                         fields_of_study |-> <<"Computer Science">> ],
    awards_certifications |-> AwardsOf(1) ],
  [ qualifications |-> [ highest_qualification |-> "PhD in Mathematics",
                         qualification_level |-> "phd", fields_of_study |-> <<"Mathematics">> ],
    awards_certifications |-> AwardsOf(7) ] }

Profiles ==
  { [ resume_code |-> "CV-20107184",
      skills |-> SkillsOf(S),
      experience |-> ExperienceOf(lines, 1),
      qualifications |-> c.qualifications,
      awards_certifications |-> c.awards_certifications ] :
    S \in SUBSET (1..Len(SkillEntryPool)), lines \in ExperienceLineSeqs, c \in CredentialPool }

-----------------------------------------------------------------------------
(* Idle values of the parts a specification does not exercise *)

IdleScore ==
  /\ resume_data = [resume_code |-> "N/A"]
  /\ job_description = <<>>
  /\ hashSeed = 1
  /\ reports = {}

IdleParse ==
  /\ document = <<>>
  /\ today = <<2026, 1, 1>>
  /\ parsed = {}
  /\ code_args = <<>>
  /\ issued = {}

IdleBatch ==
  /\ uploads = <<>>
  /\ cursor = <<>>
  /\ counters = <<>>
  /\ outcomes = <<>>
  /\ cv_storage = {}
  /\ candidates = {}
  /\ skill_rows = {}
  /\ memo = <<>>

IdleCall == call = [op |-> "none"] /\ pool = <<>>

-----------------------------------------------------------------------------
(* Scoring: one profile and one job text, scored by successive calls, the   *)
(* interpreter possibly restarted in between (the Streamlit server process  *)
(* is restarted on deployment; every start draws a new string-hash seed).   *)

InitScore ==
  /\ resume_data \in Profiles
  /\ job_description \in JobTexts
  /\ hashSeed = 1
  /\ reports = {}
  /\ IdleParse
  /\ IdleBatch
  /\ IdleCall

\* app.py 567: self.scoring_model.generate_comprehensive_report(...)
Score ==
  /\ \A r \in reports : r.seed # hashSeed
  /\ reports' = reports \cup
        { [seed |-> hashSeed,
           result |-> GenerateComprehensiveReport(job_description, resume_data, hashSeed)] }
  /\ UNCHANGED <<resume_data, job_description, hashSeed>>
  /\ UNCHANGED parseVars
  /\ UNCHANGED batchVars
  /\ UNCHANGED callVars

\* the server process ends and a new one starts (a process that ends before
\* it served a scoring call has left nothing to compare with)
RestartInterpreter ==
  /\ hashSeed < NumSeeds
  /\ \E r \in reports : r.seed = hashSeed
  /\ hashSeed' = hashSeed + 1
  /\ UNCHANGED <<resume_data, job_description, reports>>
  /\ UNCHANGED parseVars
  /\ UNCHANGED batchVars
  /\ UNCHANGED callVars

NextScore == Score \/ RestartInterpreter

SpecScore == InitScore /\ [][NextScore]_vars

-----------------------------------------------------------------------------
(* Extraction: one file, parsed by successive calls of parse_resume, an     *)
(* extractor possibly raising in a call.                                    *)

\* the lines resumes are made of, in the order they take in a resume
ResumeLines ==
  << "Phone 0771234567", "Education", "Bachelor of Science",
     "BSc Mathematics, Africa College 2014",
     "Master of Science", "Master of Education", "Skills", "- python python python",
     "PhD in Mathematics", "Experience", "Developer at Acme 2018-2020",
     "Employee of the year award 2019" >>

\* the lines with index in S, in order
BlocksOf(S) == SelectSeqOf(ResumeLines, { ResumeLines[i] : i \in S })

(* The files: up to MaxBlocks lines, one per block, read to the end or up   *)
(* to the last block (a reader that raises earlier leaves the text of a     *)
(* shorter file of the model).                                              *)
FileTypes == {"pdf", "docx"}

Documents ==
  UNION { { [file_type |-> t, blocks |-> BlocksOf(S), read |-> r] :
              t \in FileTypes, r \in {Cardinality(S) - 1, Cardinality(S)} \cap Nat } :
          S \in { T \in SUBSET (1..Len(ResumeLines)) : Cardinality(T) <= MaxBlocks } }

ExtractorFaults == {"none", "MemoryError"}

InitParse ==
  /\ document \in Documents
  /\ today = <<2026, 1, 1>>
  /\ parsed = {}
  /\ code_args = <<>>
  /\ issued = {}
  /\ hashSeed = 1
  /\ resume_data = [resume_code |-> "N/A"]
  /\ job_description = <<>>
  /\ reports = {}
  /\ IdleBatch
  /\ IdleCall

\* app.py 549: self.resume_parser.parse_resume(tmp_path, file_type)
ParseFile ==
  /\ \E fault \in ExtractorFaults :
        /\ \A r \in parsed : r.fault # fault
        /\ parsed' = parsed \cup
             { [fault |-> fault, result |-> ParseResume(document, today, hashSeed, fault)] }
  /\ UNCHANGED <<document, today, code_args, issued>>
  /\ UNCHANGED scoreVars
  /\ UNCHANGED batchVars
  /\ UNCHANGED callVars

NextParse == ParseFile

SpecParse == InitParse /\ [][NextParse]_vars

-----------------------------------------------------------------------------
(* Confidential codes: generate_confidential_code called with changing      *)
(* arguments while the calendar advances.                                   *)

Phones == { <<>>, Spell["0771234567"], Spell["0712345678"] }

\* two texts that agree on their first 500 characters, one that differs
\* from them at the 500th, and a short one
CodeTexts ==
  { Filler(500) \o <<"x">>, Filler(500) \o <<"y">>, Filler(499) \o <<"x", "y">>, <<"a">> }

CodeArgs == [phone_number : Phones, text : CodeTexts]

Dates == { <<2026, 1, 1>>, <<2026, 2, 1>>, <<2027, 1, 1>> }

Later(d, e) ==
  \/ d[1] > e[1]
  \/ d[1] = e[1] /\ d[2] > e[2]
  \/ d[1] = e[1] /\ d[2] = e[2] /\ d[3] > e[3]

InitCode ==
  /\ code_args \in CodeArgs
  /\ today = <<2026, 1, 1>>
  /\ issued = {}
  /\ document = <<>>
  /\ parsed = {}
  /\ IdleScore
  /\ IdleBatch
  /\ IdleCall

\* nlp_processor.py 765: self.generate_confidential_code(phone_number, raw_text)
IssueCode ==
  /\ Cardinality(issued) < MaxIssued
  /\ issued' = issued \cup
       { [ phone_number |-> code_args.phone_number, text |-> code_args.text, date |-> today,
           code |-> GenerateConfidentialCode(code_args.phone_number, code_args.text, today) ] }
  /\ UNCHANGED <<document, today, parsed, code_args>>
  /\ UNCHANGED scoreVars
  /\ UNCHANGED batchVars
  /\ UNCHANGED callVars

\* the next call has other arguments
NextArguments ==
  /\ code_args' \in CodeArgs \ {code_args}
  /\ UNCHANGED <<document, today, parsed, issued>>
  /\ UNCHANGED scoreVars
  /\ UNCHANGED batchVars
  /\ UNCHANGED callVars

\* datetime.now() moves to a later day
AdvanceClock ==
  /\ \E d \in Dates : Later(d, today) /\ today' = d
  /\ UNCHANGED <<document, parsed, code_args, issued>>
  /\ UNCHANGED scoreVars
  /\ UNCHANGED batchVars
  /\ UNCHANGED callVars

NextCode == IssueCode \/ NextArguments \/ AdvanceClock

SpecCode == InitCode /\ [][NextCode]_vars

-----------------------------------------------------------------------------
(* Parsing documents whose lines come in any order, headings repeated: the  *)
(* line scans of the extractors open and close their sections.              *)

ScanLines ==
  << "Education", "Experience", "BSc Mathematics, Africa College 2014",
     "Developer at Acme 2018-2020",
     "Managed the skills matrix of all the delivery teams there" >>

ScanDocuments ==
  { [file_type |-> "pdf", blocks |-> [i \in 1..Len(s) |-> ScanLines[s[i]]],
     read |-> Len(s)] :
    s \in UNION { [1..n -> 1..Len(ScanLines)] : n \in 0..MaxScanLines } }

InitScan ==
  /\ document \in ScanDocuments
  /\ today = <<2026, 1, 1>>
  /\ parsed = {}
  /\ code_args = <<>>
  /\ issued = {}
  /\ IdleScore
  /\ IdleBatch
  /\ IdleCall

SpecScan == InitScan /\ [][NextParse]_vars

-----------------------------------------------------------------------------
(* Single calls of the helper functions, each with arguments drawn from the *)
(* values its parameters can take: one call in a behaviour.                 *)

InitCall ==
  /\ call = [op |-> "none"]
  /\ pool = <<>>
  /\ IdleScore
  /\ IdleParse
  /\ IdleBatch

\* nlp_processor.py 576: self._determine_experience_level_advanced(years)
DetermineLevelCall ==
  /\ call.op = "none"
  /\ \E tenths \in 0..MaxTenths :
        call' = [op |-> "_determine_experience_level_advanced", years |-> tenths,
                 result |-> DetermineExperienceLevel(tenths)]
  /\ UNCHANGED pool
  /\ UNCHANGED scoreVars
  /\ UNCHANGED parseVars
  /\ UNCHANGED batchVars

\* the skill matches around the 70 of the 60-70 tier, the least and one of
\* the greatest a skill analysis gives
SkillMatches == {0, 6999, 7000, 7001, 17000}

\* ml_model.py 80: self._generate_detailed_recommendation(overall_score,
\* skill_fit, experience_fit)
RecommendationCall ==
  /\ call.op = "none"
  /\ \E score \in 0..MaxScore, skill_match \in SkillMatches, sufficient \in BOOLEAN :
        call' = [op |-> "_generate_detailed_recommendation",
                 score |-> score, skill_match |-> skill_match,
                 result |-> GenerateDetailedRecommendation(
                              score, [comprehensive_match_percentage |-> skill_match],
                              [experience_sufficiency |-> sufficient])]
  /\ UNCHANGED pool
  /\ UNCHANGED scoreVars
  /\ UNCHANGED parseVars
  /\ UNCHANGED batchVars

\* the lines _extract_position_info is called with, and the years
\* datetime.now() gives
PositionCallLines ==
  { "Developer at Acme 2018-2020", "Team Lead, managed accounts at Globex Bank 2015-2020",
    "Employee of the year award 2019", "Lead at Globex 2020-Present",
    "BSc Mathematics, Africa College 2014", "Developer at Acme 2020-2018",
    "Managed the skills matrix of all the delivery teams there" }

CallYears == {2026, 2027}

\* nlp_processor.py 549: self._extract_position_info(line_clean)
PositionInfoCall ==
  /\ call.op = "none"
  /\ \E line \in PositionCallLines, year \in CallYears :
        call' = [op |-> "_extract_position_info", text |-> line, year |-> year,
                 result |-> ExtractPositionInfo(Spell[line], <<year, 1, 1>>)]
  /\ UNCHANGED pool
  /\ UNCHANGED scoreVars
  /\ UNCHANGED parseVars
  /\ UNCHANGED batchVars

\* the position lines of the experience sections extract_experience_advanced
\* is called with: a range of 2 years, the same range end year first, a range
\* of 26 years and an open range
ExperienceCallLines ==
  { "Developer at Acme 2018-2020", "Developer at Acme 2020-2018",
    "Developer at Acme 2000-2026", "Lead at Globex 2020-Present",
    "Experienced Developer at Acme 2018-2020" }

\* nlp_processor.py 770: self.extract_experience_advanced(raw_text), for the
\* text of an experience heading followed by position lines
ExperienceCall ==
  /\ call.op = "none"
  /\ \E lines \in UNION { [1..n -> ExperienceCallLines] : n \in 0..MaxCallPositions } :
        call' = [op |-> "extract_experience_advanced", lines |-> lines,
                 result |-> ExtractExperience(
                              BlocksText(<<"Experience">> \o lines, Len(lines) + 1),
                              hashSeed, <<2026, 1, 1>>)]
  /\ UNCHANGED pool
  /\ UNCHANGED scoreVars
  /\ UNCHANGED parseVars
  /\ UNCHANGED batchVars

\* the parts of the job texts the requirements are read from: a seniority
\* word or none, a years phrase or none
SeniorityWords == {""} \cup Range(level_alternatives)
YearsPhrases == {"", "0+ years experience", "3 years experience", "5+ years experience"}

\* "<Seniority> role, <years phrase>"
RequirementText(seniority, years) ==
  Spell[seniority] \o Spell[" role, "] \o Spell[years]

\* ml_model.py 249: self._extract_experience_requirements_advanced(job_description)
RequirementsCall ==
  /\ call.op = "none"
  /\ \E seniority \in SeniorityWords, years \in YearsPhrases :
        call' = [op |-> "_extract_experience_requirements_advanced",
                 seniority |-> seniority, years |-> years,
                 result |-> ExtractExperienceRequirements(RequirementText(seniority, years))]
  /\ UNCHANGED pool
  /\ UNCHANGED scoreVars
  /\ UNCHANGED parseVars
  /\ UNCHANGED batchVars

\* a skill written n times on one line
RECURSIVE Mentions(_, _)
Mentions(skill, n) ==
  IF n = 0 THEN <<>> ELSE Spell[skill] \o (IF n = 1 THEN <<>> ELSE <<" ">> \o Mentions(skill, n - 1))

\* a text that mentions a skill: under a skills heading or not, after a
\* bullet or not
SkillText(heading, bullet, skill, n) ==
  (IF heading THEN Spell["Skills"] \o <<"\n">> ELSE <<>>)
    \o (IF bullet THEN <<"-", " ">> ELSE <<>>) \o Mentions(skill, n)

\* nlp_processor.py 769
SkillsCall ==
  /\ call.op = "none"
  /\ \E heading \in BOOLEAN, bullet \in BOOLEAN, skill \in {"python", "sql"}, n \in 1..MaxMentions :
       call' = [op |-> "extract_skills_comprehensive",
                text |-> SkillText(heading, bullet, skill, n),
                result |-> ExtractSkills(SkillText(heading, bullet, skill, n))]
  /\ UNCHANGED pool
  /\ UNCHANGED scoreVars
  /\ UNCHANGED parseVars
  /\ UNCHANGED batchVars

QualificationCallLines ==
  { "Master of Science", "Master of Education", "BSc Mathematics, Africa College 2014" }

\* nlp_processor.py 768
QualificationsCall ==
  /\ call.op = "none"
  /\ \E lines \in UNION { [1..n -> QualificationCallLines] : n \in 0..MaxCallPositions } :
       call' = [op |-> "extract_qualifications_advanced", lines |-> lines,
                result |-> ExtractQualifications(BlocksText(<<"Education">> \o lines, Len(lines) + 1))]
  /\ UNCHANGED pool
  /\ UNCHANGED scoreVars
  /\ UNCHANGED parseVars
  /\ UNCHANGED batchVars

NextCall ==
  \/ DetermineLevelCall
  \/ RecommendationCall
  \/ PositionInfoCall
  \/ ExperienceCall
  \/ RequirementsCall
  \/ SkillsCall
  \/ QualificationsCall

SpecCall == InitCall /\ [][NextCall]_vars

-----------------------------------------------------------------------------
(* Scoring many profiles against one job text in one interpreter process,   *)
(* in any order and any number of times each (app.py 538-569 scores the     *)
(* files of a batch one after another with the one scoring model).  The     *)
(* profile objects are state: a call is handed the object, not a copy.      *)

\* the profiles of the pool: one skill or every skill, with the least and
\* with the greatest credentials
PoolProfiles ==
  { [ resume_code |-> "CV-20107184",
      skills |-> SkillsOf(1..n),
      experience |-> ExperienceOf(<<>>, 1),
      qualifications |-> c.qualifications,
      awards_certifications |-> c.awards_certifications ] :
    n \in {1, Len(SkillEntryPool)},
    c \in { x \in CredentialPool : x.qualifications.qualification_level \in {"", "phd"} } }

\* the job texts of one phrase, and the empty one
PoolJobTexts == { JoinPhrases(S, 1) : S \in {{}} \cup { {k} : k \in 1..Len(JobPhrases) } }

InitPool ==
  /\ pool \in [1..MaxPool -> PoolProfiles]
  /\ job_description \in PoolJobTexts
  /\ hashSeed = 1
  /\ reports = {}
  /\ resume_data = [resume_code |-> "N/A"]
  /\ call = [op |-> "none"]
  /\ IdleParse
  /\ IdleBatch

\* a scoring call that uses up the skill entries of the profile it is handed
\* (the list emptied with pop() while it is flattened)
ScoreProfileConsuming(i) ==
  /\ reports' = reports \cup
        { [profile |-> i, seed |-> hashSeed,
           result |-> GenerateComprehensiveReport(job_description, pool[i], hashSeed)] }
  /\ pool' = [pool EXCEPT ![i].skills.skills_by_category = <<>>]
  /\ call' = [op |-> "generate_comprehensive_report", profile |-> i]
  /\ UNCHANGED <<resume_data, job_description, hashSeed>>
  /\ UNCHANGED parseVars
  /\ UNCHANGED batchVars

\* app.py 567: generate_comprehensive_report(job_requirements, resume_data) for
\* the i-th profile; it reads the profile and the job text and assigns to
\* neither (ml_model.py 50-118 and the helpers build new lists and dicts)
ScoreProfile(i) ==
  /\ reports' = reports \cup
        { [profile |-> i, seed |-> hashSeed,
           result |-> GenerateComprehensiveReport(job_description, pool[i], hashSeed)] }
  /\ call' = [op |-> "generate_comprehensive_report", profile |-> i]
  /\ UNCHANGED <<pool, resume_data, job_description, hashSeed>>
  /\ UNCHANGED parseVars
  /\ UNCHANGED batchVars

NextPool == \E i \in 1..Len(pool) : ScoreProfile(i)

SpecPool == InitPool /\ [][NextPool]_vars

-----------------------------------------------------------------------------
(* Batch upload: process_uploaded_resumes, run by the users of the server,  *)
(* each in the script thread of their own browser session, against the one  *)
(* database.  A database statement may fail (sqlite: database is locked,    *)
(* disk I/O error); get_session, rollback and close_session do not.         *)

Users == {1, 2}

SkipDuplicates == "Skip duplicates"

OverwriteExisting == "Overwrite existing analysis"

DuplicateModes == {SkipDuplicates, OverwriteExisting}

\* the job selected in the form; its required skills are the text "Python, sql"
job == [job_id |-> 1, required_skills |-> JoinPhrases({1, 2}, 1)]

\* the files a user can choose: two resumes of one person, and a file that
\* no text can be read from
FilePool ==
  { [ name |-> "a.pdf", file_type |-> "pdf", read |-> 3,
      blocks |-> <<"Phone 0771234567", "Skills", "- python, sql">> ],
    [ name |-> "b.docx", file_type |-> "docx", read |-> 2,
      blocks |-> <<"Phone 0771234567", "- python, sql">> ],
    [ name |-> "c.pdf", file_type |-> "pdf", read |-> 0,
      blocks |-> <<"Skills">> ] }

FileSeqs == UNION { [1..n -> FilePool] : n \in 0..MaxFiles }

DatabaseFaults == {"ok", "OperationalError"}

ScoringFaults == {"none", "MemoryError"}

\* f"Candidate-{resume_code}"
CandidateName(resume_code) == <<"Candidate-", resume_code>>

CurrentFile(u) == uploads[u].files[cursor[u].i]

\* the upload a stored row was written by
Attempt(u) == <<u, cursor[u].i>>

\* a query that finds no candidate
NoMatchingCandidates(job_id, resume_code) == {}

MatchingCandidates(job_id, resume_code) ==
  { c \in candidates :
      c.job_id = job_id /\ c.candidate_name = CandidateName(resume_code) }

\* database.check_duplicate_candidate
CheckDuplicateCandidate(job_id, resume_code, db) ==
  IF db # "ok" THEN FALSE
  ELSE MatchingCandidates(job_id, resume_code) # {}

\* the update of an existing record without `existing_cv.user_id = user_id`
StoreCvFileKeepingOwner(resume_code, filename, file_type, user_id, attempt, db) ==
  IF db # "ok" THEN cv_storage
  ELSE { row \in cv_storage : row.resume_code # resume_code } \cup
       { [ resume_code |-> resume_code, original_filename |-> filename,
           file_type |-> file_type, attempt |-> attempt,
           user_id |-> IF \E row \in cv_storage : row.resume_code = resume_code
                       THEN (CHOOSE row \in cv_storage : row.resume_code = resume_code).user_id
                       ELSE user_id ] }

\* database.store_cv_file: the table after the call
StoreCvFile(resume_code, filename, file_type, user_id, attempt, db) ==
  IF db # "ok" THEN cv_storage
  ELSE { row \in cv_storage : row.resume_code # resume_code } \cup
       { [ resume_code |-> resume_code, original_filename |-> filename,
           file_type |-> file_type, user_id |-> user_id, attempt |-> attempt ] }

\* the users table: the default superadmin that database.py 417-437 creates
\* at import, and an HR user created with is_superadmin=False (app.py 233)
is_superadmin == [u \in Users |-> u = 1]

\* database.get_cv_by_resume_code: <<cv_record>>, or <<>> for None
GetCvByResumeCode(resume_code, user_id, db) ==
  IF db # "ok" THEN <<>>
  ELSE IF \E row \in cv_storage : row.resume_code = resume_code
  THEN LET cv_record == CHOOSE row \in cv_storage : row.resume_code = resume_code
       IN IF user_id \in Users /\ (cv_record.user_id = user_id \/ is_superadmin[user_id])
          THEN <<cv_record>>
          ELSE <<>>
  ELSE <<>>

\* the key an inserted candidate row gets
NextCandidateId ==
  IF candidates = {} THEN 1
  ELSE 1 + (CHOOSE n \in { c.candidate_id : c \in candidates } :
               \A c \in candidates : c.candidate_id <= n)

CountSuccessful(c) == [c EXCEPT !.successful_processed = @ + 1]

CountFailed(c) == [c EXCEPT !.failed_processed = @ + 1]

CountSkipped(c) == [c EXCEPT !.skipped_duplicates = @ + 1]

\* the loop goes on to the next file, or ends after the last one
\* (the values of parsed_data, comprehensive_report and existing_candidate are
\* not read again once the file is done)
NextFile(u) ==
  cursor' = [cursor EXCEPT ![u] =
               [ i |-> cursor[u].i + 1,
                 pc |-> IF cursor[u].i + 1 > Len(uploads[u].files) THEN "done" ELSE "parse",
                 parsed_data |-> <<>>,
                 comprehensive_report |-> <<>>,
                 existing |-> 0 ]]

\* the outcome of the file, with the code it was parsed to (if it was)
Record(u, outcome, resume_code) ==
  outcomes' = [outcomes EXCEPT ![u] =
                 @ \cup { [index |-> cursor[u].i, outcome |-> outcome,
                           resume_code |-> resume_code] }]

\* `failed_processed += 1; continue` after an error value from parse_resume
ParseError(u) ==
  /\ counters' = [counters EXCEPT ![u] = CountFailed(@)]
  /\ Record(u, "failed", <<>>)
  /\ NextFile(u)

\* `skipped_duplicates += 1; continue`
SkipDuplicate(u, resume_code) ==
  /\ counters' = [counters EXCEPT ![u] = CountSkipped(@)]
  /\ Record(u, "skipped", resume_code)
  /\ NextFile(u)

\* the outer `except Exception`: failed_processed += 1
ProcessingError(u) ==
  /\ counters' = [counters EXCEPT ![u] = CountFailed(@)]
  /\ Record(u, "failed", cursor[u].parsed_data.resume_code)
  /\ NextFile(u)

\* a database handler that lets the exception end the loop
ReraiseDatabaseError(u) ==
  /\ cursor' = [cursor EXCEPT ![u].pc = "aborted"]
  /\ UNCHANGED <<counters, outcomes>>

\* the inner `except Exception`: session.rollback(); failed_processed += 1
DatabaseError(u) ==
  /\ counters' = [counters EXCEPT ![u] = CountFailed(@)]
  /\ Record(u, "failed", cursor[u].parsed_data.resume_code)
  /\ NextFile(u)

\* session.commit(); successful_processed += 1
Committed(u) ==
  /\ counters' = [counters EXCEPT ![u] = CountSuccessful(@)]
  /\ Record(u, "successful", cursor[u].parsed_data.resume_code)
  /\ NextFile(u)

InitBatch ==
  /\ uploads \in
       { up \in [Users -> [files : FileSeqs, handle_duplicates : DuplicateModes]] :
           /\ Len(up[1].files) + Len(up[2].files) <= MaxFiles
           /\ Len(up[1].files) >= 1 }
  /\ cursor = [u \in Users |->
                 [ i |-> 1,
                   pc |-> IF uploads[u].files = <<>> THEN "done" ELSE "parse",
                   parsed_data |-> <<>>,
                   comprehensive_report |-> <<>>,
                   existing |-> 0 ]]
  /\ counters = [u \in Users |->
                   [successful_processed |-> 0, failed_processed |-> 0, skipped_duplicates |-> 0]]
  /\ outcomes = [u \in Users |-> {}]
  /\ cv_storage = {}
  /\ candidates = {}
  /\ skill_rows = {}
  /\ IdleScore
  /\ IdleParse
  /\ IdleCall
  /\ \E parse \in { [f \in FilePool, x \in ExtractorFaults |->
                        ParseResume(f, today, hashSeed, x)] } :
        memo = [ parse |-> parse,
                 report |->
                   [ f \in { g \in FilePool : "error" \notin DOMAIN parse[g, "none"] } |->
                       GenerateComprehensiveReport(job.required_skills, parse[f, "none"],
                                                   hashSeed) ] ]

\* app.py 546-562: parse the file, then look for a candidate with its code
ParseAndCheck(u) ==
  /\ cursor[u].pc = "parse"
  /\ \E fault \in ExtractorFaults :
     \E parsed_data \in { memo.parse[CurrentFile(u), fault] } :
     \E db \in DatabaseFaults :
        IF "error" \in DOMAIN parsed_data
        THEN ParseError(u)
        ELSE IF /\ CheckDuplicateCandidate(job.job_id, parsed_data.resume_code, db)
                /\ uploads[u].handle_duplicates = SkipDuplicates
        THEN SkipDuplicate(u, parsed_data.resume_code)
        ELSE /\ cursor' = [cursor EXCEPT ![u].pc = "score",
                                         ![u].parsed_data = parsed_data]
             /\ UNCHANGED <<counters, outcomes>>
  /\ UNCHANGED <<uploads, cv_storage, candidates, skill_rows, memo>>
  /\ UNCHANGED scoreVars
  /\ UNCHANGED parseVars
  /\ UNCHANGED callVars

\* generate_comprehensive_report(job.required_skills, parsed_data), or a fault
\* of the interpreter during it
ComprehensiveReport(file, fault) ==
  IF fault # "none" THEN [fault |-> fault] ELSE memo.report[file]

\* app.py 566-581: score the profile, then store the file
ScoreAndStoreCv(u) ==
  /\ cursor[u].pc = "score"
  /\ \E fault \in ScoringFaults :
     \E comprehensive_report \in { ComprehensiveReport(CurrentFile(u), fault) } :
     \E db \in DatabaseFaults :
        IF comprehensive_report.fault # "none"
        THEN /\ ProcessingError(u)
             /\ UNCHANGED cv_storage
        ELSE /\ cv_storage' =
                  StoreCvFile(cursor[u].parsed_data.resume_code, CurrentFile(u).name,
                              CurrentFile(u).file_type, u, Attempt(u), db)
             /\ cursor' = [cursor EXCEPT ![u].pc = "query",
                                         ![u].comprehensive_report = comprehensive_report.report]
             /\ UNCHANGED <<counters, outcomes>>
  /\ UNCHANGED <<uploads, candidates, skill_rows, memo>>
  /\ UNCHANGED scoreVars
  /\ UNCHANGED parseVars
  /\ UNCHANGED callVars

\* app.py 584-590: session.query(Candidate).filter_by(...).first(); the query
\* has no ORDER BY, so any matching row may be the first
QueryExisting(u) ==
  /\ cursor[u].pc = "query"
  /\ \E db \in DatabaseFaults :
        LET matching == MatchingCandidates(job.job_id, cursor[u].parsed_data.resume_code)
        IN IF db # "ok"
           THEN DatabaseError(u)
           ELSE /\ \E existing \in IF matching = {} THEN {0}
                                   ELSE { c.candidate_id : c \in matching } :
                      cursor' = [cursor EXCEPT ![u].pc = "write", ![u].existing = existing]
                /\ UNCHANGED <<counters, outcomes>>
  /\ UNCHANGED <<uploads, cv_storage, candidates, skill_rows, memo>>
  /\ UNCHANGED scoreVars
  /\ UNCHANGED parseVars
  /\ UNCHANGED callVars

\* app.py 592-630: update or insert the candidate, replace its skills, commit
WriteCandidate(u) ==
  /\ cursor[u].pc = "write"
  /\ \E db \in DatabaseFaults :
        LET parsed_data == cursor[u].parsed_data
            score == cursor[u].comprehensive_report.job_fit_analysis.compatibility_score
            existing == cursor[u].existing
            candidate_id == IF existing # 0 THEN existing ELSE NextCandidateId
        IN IF db # "ok"
           THEN /\ DatabaseError(u)
                /\ UNCHANGED <<candidates, skill_rows>>
           ELSE /\ candidates' =
                     IF existing # 0
                     THEN { IF c.candidate_id = existing
                            THEN [c EXCEPT !.compatibility_score = score,
                                           !.attempt = Attempt(u)]
                            ELSE c : c \in candidates }
                     ELSE candidates \cup
                          { [ candidate_id |-> candidate_id,
                              job_id |-> job.job_id,
                              candidate_name |-> CandidateName(parsed_data.resume_code),
                              phone |-> parsed_data.phone_number,
                              compatibility_score |-> score,
                              resume_file_path |-> CurrentFile(u).name,
                              attempt |-> Attempt(u) ] }
                /\ skill_rows' =
                     { row \in skill_rows : existing = 0 \/ row.candidate_id # existing } \cup
                     { [ candidate_id |-> candidate_id,
                         skill_name |-> parsed_data.skills_list[k][1],
                         confidence_score |-> parsed_data.skills_list[k][3],
                         attempt |-> Attempt(u) ] : k \in 1..Len(parsed_data.skills_list) }
                /\ Committed(u)
  /\ UNCHANGED <<uploads, cv_storage, memo>>
  /\ UNCHANGED scoreVars
  /\ UNCHANGED parseVars
  /\ UNCHANGED callVars

UserStep(u) ==
  \/ ParseAndCheck(u)
  \/ ScoreAndStoreCv(u)
  \/ QueryExisting(u)
  \/ WriteCandidate(u)

NextBatch == \E u \in Users : UserStep(u)

SpecBatch == InitBatch /\ [][NextBatch]_vars

\* a script thread that has a file to process goes on running
SpecBatchLive == SpecBatch /\ \A u \in Users : WF_vars(UserStep(u))

-----------------------------------------------------------------------------
(* Properties of the scoring model, checked under SpecScore *)

\* the results returned so far that are reports
Returned == { r.result : r \in { x \in reports : x.result.fault = "none" } }

\* the skill names the candidate holds, and the taxonomy skills the job names
CandidateSkillSet ==
  { resume_data.skills.skills_by_category[i].skill :
      i \in 1..Len(resume_data.skills.skills_by_category) }

JobSkillSet ==
  Local1(LAMBDA t : { skill \in AllTaxonomySkills : Contains(t, Spell[skill]) },
         Lower(job_description))

IsNearest(value, num, den) ==
  LET d == value * den - num IN 2 * (IF d < 0 THEN -d ELSE d) <= den

NoDuplicates(s) == \A i, j \in 1..Len(s) : s[i] = s[j] => i = j

\* C1: the compatibility score of every report lies in [0, 100].
C1_ScoreInRange ==
  \A r \in Returned :
      /\ r.report.job_fit_analysis.compatibility_score >= 0
      /\ r.report.job_fit_analysis.compatibility_score <= 10000

ReportFields ==
  { "job_fit_analysis", "quality_analysis", "interview_priority", "recommendation",
    "interview_questions", "strengths_weaknesses", "resume_code", "confidential_lookup" }

JobFitFields ==
  { "compatibility_score", "skill_match", "experience_match", "education_match",
    "matching_skills", "missing_skills", "skill_match_breakdown", "fit_analysis" }

\* C2: every scoring call returns, without a division by zero or a missing
\* key, a report that carries every field.
C2_ScoringNeverFails ==
  \A r \in reports :
      /\ r.result.fault = "none"
      /\ DOMAIN r.result.report = ReportFields
      /\ DOMAIN r.result.report.job_fit_analysis = JobFitFields

\* an empty profile has been scored against an empty job text
C2_Witness ==
  /\ reports # {}
  /\ resume_data.skills.total_skills = 0
  /\ resume_data.experience.career_progression = <<>>
  /\ resume_data.qualifications.qualification_level = ""
  /\ resume_data.awards_certifications.awards = <<>>
  /\ job_description = <<>>

\* C2 also for a job text that names no recognised skill
C2_WitnessNoSkill ==
  /\ reports # {}
  /\ job_description = Spell["excel"]
  /\ JobSkillSet = {}

\* C4: all calls with the same profile and job text return the same report,
\* the lists in the same order.
C4_Deterministic ==
  \A r1, r2 \in reports : r1.result = r2.result

\* C5: skill_match is |C \cap J| / |J| * 100 to 2 decimals (0 for empty J),
\* matching_skills lists C \cap J and missing_skills lists J \ C, where J is
\* the set of taxonomy skills occurring in the lower-cased job text; the job
\* text "Python, sql, excel" and a candidate holding only python give 50.0,
\* [python] and [sql], excel being no taxonomy skill.
C5_SkillMatch ==
  \A r \in Returned : \A C \in {CandidateSkillSet} : \A J \in {JobSkillSet} :
      LET fit == r.report.job_fit_analysis
      IN /\ IF J = {} THEN fit.skill_match = 0
            ELSE IsNearest(fit.skill_match, Cardinality(C \cap J) * 10000, Cardinality(J))
         /\ Range(fit.matching_skills) = C \cap J
         /\ NoDuplicates(fit.matching_skills)
         /\ Range(fit.missing_skills) = J \ C
         /\ NoDuplicates(fit.missing_skills)
         /\ (job_description = JoinPhrases({1, 2, 3}, 1) /\ C = {"python"})
               => /\ fit.skill_match = 5000
                  /\ fit.matching_skills = <<"python">>
                  /\ fit.missing_skills = <<"sql">>

\* the job text "Python, sql, excel" scored for a candidate holding only python
C5_Witness ==
  /\ Returned # {}
  /\ job_description = JoinPhrases({1, 2, 3}, 1)
  /\ CandidateSkillSet = {"python"}

\* C5 as stated: that job and that candidate give 33.33, [python] and a
\* missing list containing sql and excel
C5_AsStated ==
  (job_description = JoinPhrases({1, 2, 3}, 1) /\ CandidateSkillSet = {"python"})
     => \A r \in Returned :
            /\ r.report.job_fit_analysis.skill_match = 3333
            /\ r.report.job_fit_analysis.matching_skills = <<"python">>
            /\ {"sql", "excel"} \subseteq Range(r.report.job_fit_analysis.missing_skills)

\* C6: the overall score is 0.40 skill + 0.30 experience + 0.15 qualification
\* + 0.10 cultural + 0.05 achievements to 2 decimals, where skill is the
\* comprehensive match percentage (exact plus 0.7 related matches over the
\* job skills), experience the sufficiency score, qualification the
\* qualification score, cultural the mean of culture alignment and
\* adaptability and achievements the achievement score; the terms 80, 60, 70,
\* 50, 40 give 67.5.
C6_WeightedSum ==
  /\ \A r \in Returned :
        LET a == r.analysis
            s == a.skill_analysis.comprehensive_match_percentage
            e == a.experience_analysis.experience_sufficiency_score
            q == a.qualification_analysis.qualification_score
            c == a.cultural_fit.culture_alignment + a.cultural_fit.adaptability_score
            h == a.achievements_impact.achievement_score
        IN /\ r.report.job_fit_analysis.compatibility_score = a.overall_score
           /\ IsNearest(a.overall_score,
                        4 * s * e[2] + 300 * e[1] + 150 * q * e[2] + 50 * c * e[2]
                          + 50 * h * e[2],
                        10 * e[2])
  /\ CalculateComprehensiveScore(
        [comprehensive_match_percentage |-> 8000],
        [experience_sufficiency_score |-> <<60, 1>>],
        [qualification_score |-> 70],
        [culture_alignment |-> 50, adaptability_score |-> 50],
        [achievement_score |-> 40]) = 6750

\* a report whose skill term counts a related skill and whose experience term
\* is a proper fraction
C6_Witness ==
  \E r \in Returned :
      /\ r.analysis.skill_analysis.related_skills # <<>>
      /\ r.analysis.experience_analysis.experience_sufficiency_score[2] > 1
      /\ r.analysis.experience_analysis.experience_sufficiency_score[1] > 0

\* C6 as stated: the terms are the sub-scores the report shows, skill_match,
\* experience_match and education_match among them
C6_AsStated ==
  \A r \in Returned :
      LET a == r.analysis
          fit == r.report.job_fit_analysis
          e == fit.experience_match
          c == a.cultural_fit.culture_alignment + a.cultural_fit.adaptability_score
          h == a.achievements_impact.achievement_score
      IN IsNearest(fit.compatibility_score,
                   4 * fit.skill_match * e[2] + 300 * e[1] + 150 * fit.education_match * e[2]
                     + 50 * c * e[2] + 50 * h * e[2],
                   10 * e[2])

-----------------------------------------------------------------------------
(* Properties of the extraction, checked under SpecParse *)

DocumentText == ExtractTextFromFile(document)

ReaderRaised == document.read < Len(document.blocks)

ProfileFields ==
  { "resume_code", "phone_number", "qualifications", "skills", "experience",
    "awards_certifications", "skills_list", "processed_text" }

\* C3: parse_resume never raises; for an empty text it returns an error
\* value and no profile; an exception of an extractor is returned as an
\* error value; an exception of the file reader is swallowed, and the text
\* read before it is analysed like the text of a whole file.
C3_ParseNeverRaises ==
  \A r \in parsed :
      /\ "exception" \notin DOMAIN r.result
      /\ DocumentText = <<>> => DOMAIN r.result = {"error"}
      /\ (DocumentText # <<>> /\ r.fault # "none") => DOMAIN r.result = {"error"}
      /\ (DocumentText # <<>> /\ r.fault = "none") => DOMAIN r.result = ProfileFields

\* an extractor raised in one call, and the reader raised after some text
C3_Witness ==
  /\ ReaderRaised
  /\ DocumentText # <<>>
  /\ \E r \in parsed : r.fault # "none"
  /\ \E r \in parsed : r.fault = "none"

\* an empty text has been parsed
C3_WitnessEmpty ==
  /\ DocumentText = <<>>
  /\ parsed # {}

\* C3 as stated: every fault during extraction, that of the reader
\* included, is returned as an error value
C3_AsStated ==
  \A r \in parsed :
      /\ "exception" \notin DOMAIN r.result
      /\ DocumentText = <<>> => DOMAIN r.result = {"error"}
      /\ (r.fault # "none" \/ ReaderRaised) => DOMAIN r.result = {"error"}

\* the profiles returned so far
Profiled == { r.result : r \in { x \in parsed : "error" \notin DOMAIN x.result } }

LevelRank ==
  "high_school" :> 1 @@ "certificate" :> 2 @@ "diploma" :> 3 @@ "bachelors" :> 4 @@
  "masters" :> 5 @@ "phd" :> 6

WholeFile(S) == document.blocks = BlocksOf(S) /\ ~ReaderRaised

C10_WitnessTie ==
  /\ WholeFile({2, 3, 4})
  /\ Profiled # {}

-----------------------------------------------------------------------------
(* Properties of the confidential codes, checked under SpecCode *)

Prefix(text) == SubSeq(text, 1, Min(Len(text), 500))

MonthDay(date) == <<date[2], date[3]>>

\* C9: the same phone number on the same calendar day yields the same code;
\* the same phone number on two days that differ in month or day of the
\* month yields two different codes; without a phone number the code
\* depends only on the first 500 characters of the text.
C9_CodeFunction ==
  \A a, b \in issued :
      /\ (a.phone_number # <<>> /\ a.phone_number = b.phone_number /\ a.date = b.date)
            => a.code = b.code
      /\ (a.phone_number # <<>> /\ a.phone_number = b.phone_number
            /\ MonthDay(a.date) # MonthDay(b.date))
            => a.code # b.code
      /\ (a.phone_number = <<>> /\ b.phone_number = <<>> /\ Prefix(a.text) = Prefix(b.text))
            => a.code = b.code

\* one phone number got codes on two days of different months
C9_Witness ==
  \E a, b \in issued :
      /\ a.phone_number # <<>>
      /\ a.phone_number = b.phone_number
      /\ a.text # b.text
      /\ a.date[2] # b.date[2]

\* two texts with the same first 500 characters got codes without a phone number
C9_WitnessText ==
  \E a, b \in issued :
      /\ a.phone_number = <<>> /\ b.phone_number = <<>>
      /\ a.text # b.text
      /\ Prefix(a.text) = Prefix(b.text)
      /\ a.date # b.date

\* C9 as stated: the same phone number on two different days yields two
\* different codes
C9_AsStated ==
  \A a, b \in issued :
      (a.phone_number # <<>> /\ a.phone_number = b.phone_number /\ a.date # b.date)
         => a.code # b.code

-----------------------------------------------------------------------------
(* Properties of the batch upload, checked under SpecBatchLive and SpecBatch *)

Processed(u) == cursor[u].i - 1

CounterSum(u) ==
  counters[u].successful_processed + counters[u].failed_processed
    + counters[u].skipped_duplicates

BatchAccounted ==
  \A u \in Users :
      /\ cursor[u].pc # "aborted"
      /\ CounterSum(u) = Processed(u)
      /\ \A i \in 1..Processed(u) : Cardinality({ o \in outcomes[u] : o.index = i }) = 1
      /\ \A o \in outcomes[u] : o.index <= Processed(u)
      /\ counters[u].failed_processed =
            Cardinality({ o \in outcomes[u] : o.outcome = "failed" })
      /\ counters[u].skipped_duplicates =
            Cardinality({ o \in outcomes[u] : o.outcome = "skipped" })

BatchFinished ==
  \A u \in Users :
      /\ cursor[u].pc = "done"
      /\ CounterSum(u) = Len(uploads[u].files)

\* C7: no parse error, scoring fault or database error ends the loop: at
\* every moment each file processed so far has exactly one outcome and the
\* three counters add up to the number of files processed, and every batch
\* finishes with successful + failed + skipped = N.
C7_BatchCompletes == []BatchAccounted /\ <>[]BatchFinished

\* a batch of two files has finished with a failed and a successful file
C7_Witness ==
  \E u \in Users :
      /\ cursor[u].pc = "done"
      /\ Len(uploads[u].files) >= 2
      /\ counters[u].failed_processed >= 1
      /\ counters[u].successful_processed >= 1

\* a batch has finished with a skipped duplicate
C7_WitnessSkipped ==
  \E u \in Users :
      /\ cursor[u].pc = "done"
      /\ counters[u].skipped_duplicates >= 1

\* C8: a file counted as failed has left no row behind, and a file counted
\* as successful has its CV record and its candidate row.
C8_AllOrNothing ==
  \A u \in Users : \A o \in outcomes[u] :
      /\ o.outcome = "failed" =>
            /\ \A row \in cv_storage : row.attempt # <<u, o.index>>
            /\ \A row \in candidates : row.attempt # <<u, o.index>>
            /\ \A row \in skill_rows : row.attempt # <<u, o.index>>
      /\ o.outcome = "successful" =>
            /\ \E row \in cv_storage : row.resume_code = o.resume_code
            /\ \E row \in candidates : row.candidate_name = CandidateName(o.resume_code)

-----------------------------------------------------------------------------
(* C11: experience level buckets *)

LevelCalled == call.op = "_determine_experience_level_advanced"

\* C11: the experience level label is determined by the total experience
\* years with half-open buckets: below 1 Entry, [1,3) Junior, [3,7) Mid,
\* [7,15) Senior, 15 and above Executive; 0.9 gives Entry Level, exactly 3.0
\* Mid Level and exactly 15.0 Executive Level.
C11_ExperienceBuckets ==
  LevelCalled =>
    /\ (call.years < 10 <=> call.result = "Entry Level (0-1 years)")
    /\ (call.years >= 10 /\ call.years < 30 <=> call.result = "Junior Level (1-3 years)")
    /\ (call.years >= 30 /\ call.years < 70 <=> call.result = "Mid Level (3-7 years)")
    /\ (call.years >= 70 /\ call.years < 150 <=> call.result = "Senior Level (7-15 years)")
    /\ (call.years >= 150 <=> call.result = "Executive Level (15+ years)")
    /\ (call.years = 9 => call.result = "Entry Level (0-1 years)")
    /\ (call.years = 30 => call.result = "Mid Level (3-7 years)")
    /\ (call.years = 150 => call.result = "Executive Level (15+ years)")

\* the level of exactly 3.0 years has been determined
C11_Witness == LevelCalled /\ call.years = 30

\* the level of exactly 15.0 years has been determined
C11_WitnessExecutive == LevelCalled /\ call.years = 150

-----------------------------------------------------------------------------
(* C12 *)

\* the confidences a parsed profile carries: of its skill entries, of its
\* qualification entries and of its award and certification records
ConfidencesOf(result) ==
  { result.skills.skills_by_category[i].confidence :
      i \in 1..Len(result.skills.skills_by_category) }
  \cup { result.qualifications.all_qualifications[i].confidence :
           i \in 1..Len(result.qualifications.all_qualifications) }
  \cup UNION { { result.awards_certifications[c][i].confidence :
                   i \in 1..Len(result.awards_certifications[c]) } :
               c \in DOMAIN result.awards_certifications }

\* C12: every confidence of a skill entry, of a qualification entry and of an
\* achievement record of a parsed profile lies between 0 and 1 (0 and 100
\* hundredths), whatever bonuses add up in it.
C12_ConfidenceInRange ==
  \A result \in Profiled : \A c \in ConfidencesOf(result) : c >= 0 /\ c <= 100

\* a skill found three times in a bulleted skills section (every bonus at
\* once), with a qualification entry in the same profile
C12_Witness ==
  \E result \in Profiled :
    /\ \E i \in 1..Len(result.skills.skills_by_category) :
         /\ result.skills.skills_by_category[i].frequency >= 3
         /\ result.skills.skills_by_category[i].confidence = 100
    /\ result.qualifications.all_qualifications # <<>>

\* a qualification with an institution, a field and a date, and an award record
C12_WitnessQualification ==
  \E result \in Profiled :
    /\ \E i \in 1..Len(result.qualifications.all_qualifications) :
         result.qualifications.all_qualifications[i].confidence = 100
    /\ result.awards_certifications.awards # <<>>

-----------------------------------------------------------------------------
(* C13 *)

-----------------------------------------------------------------------------
(* C14 *)

\* the tiers, from the lowest to the highest; the two labels of the 60-70
\* tier are one tier
TierRank ==
  "NOT RECOMMENDED" :> 0 @@ "BORDERLINE CANDIDATE" :> 1 @@
  "EXPERIENCED CANDIDATE" :> 2 @@ "SKILL-FOCUSED CANDIDATE" :> 2 @@
  "RECOMMEND" :> 3 @@ "STRONG RECOMMEND" :> 4 @@ "TOP CANDIDATE" :> 5

RecommendationCalled == call.op = "_generate_detailed_recommendation"

\* C14: a score of 90 or more is the top tier, 80 or more the strong one, 70
\* or more the recommend one, 60 or more the skill-focused one when the skill
\* match is 70 or more and the experience-focused one otherwise, 50 or more the
\* borderline one, anything below not recommended; every score gets exactly
\* one tier and a higher score never gets a lower tier.
C14_Tiers ==
  RecommendationCalled =>
    /\ call.result \in DOMAIN TierRank
    /\ call.result = "TOP CANDIDATE" <=> call.score >= 9000
    /\ call.result = "STRONG RECOMMEND" <=> (call.score >= 8000 /\ call.score < 9000)
    /\ call.result = "RECOMMEND" <=> (call.score >= 7000 /\ call.score < 8000)
    /\ call.result = "SKILL-FOCUSED CANDIDATE"
         <=> (call.score >= 6000 /\ call.score < 7000 /\ call.skill_match >= 7000)
    /\ call.result = "EXPERIENCED CANDIDATE"
         <=> (call.score >= 6000 /\ call.score < 7000 /\ call.skill_match < 7000)
    /\ call.result = "BORDERLINE CANDIDATE" <=> (call.score >= 5000 /\ call.score < 6000)
    /\ call.result = "NOT RECOMMENDED" <=> call.score < 5000
    /\ \A m \in SkillMatches :
         TierRank[call.result] <=
           TierRank[GenerateDetailedRecommendation(
                      call.score + 1, [comprehensive_match_percentage |-> m],
                      [experience_sufficiency |-> FALSE])]

\* a score of exactly 60 with a skill match of exactly 70
C14_Witness ==
  /\ RecommendationCalled
  /\ call.score = 6000
  /\ call.skill_match = 7000
  /\ call.result = "SKILL-FOCUSED CANDIDATE"

-----------------------------------------------------------------------------
(* C15 *)

\* the questions the claim lists for a profile whose skill gaps are gaps
QuestionsAsClaimed(profile, gaps) ==
  LET experience_data == profile.experience
      all == (IF gaps # <<>>
              THEN <<[q |-> "skill gaps", about |-> SubSeq(gaps, 1, Min(2, Len(gaps)))]>>
              ELSE <<>>)
             \o (IF experience_data.total_experience_years < 3
                 THEN <<[q |-> "ramp up", about |-> <<>>]>> ELSE <<>>)
             \o (IF Len(experience_data.career_progression) >= 1
                 THEN <<[q |-> "career progression", about |-> <<>>]>> ELSE <<>>)
             \o (IF experience_data.key_achievements # <<>>
                 THEN <<[q |-> "achievements", about |-> <<>>]>> ELSE <<>>)
             \o (IF experience_data.industry_sectors # <<>>
                 THEN <<[q |-> "industry", about |-> <<experience_data.industry_sectors[1]>>]>>
                 ELSE <<>>)
             \o << [q |-> "challenging project", about |-> <<>>],
                   [q |-> "industry trends", about |-> <<>>],
                   [q |-> "attraction to role", about |-> <<>>] >>
  IN SubSeq(all, 1, Min(6, Len(all)))

\* C15: the interview questions are, in this order, the question naming the
\* first two skill gaps (whenever the candidate lacks a skill the job names),
\* the ramp-up question (under 3 years), the career-progression question (a
\* position exists), the achievement question, the industry question, then
\* the fixed behavioural questions, cut to at most 6.
C15_QuestionOrder ==
  \A r \in Returned :
      r.report.interview_questions =
        QuestionsAsClaimed(resume_data, r.analysis.skill_analysis.critical_skill_gaps)

-----------------------------------------------------------------------------
(* C16 *)

\* C16: each of the five sub-scores of the weighted sum lies in [0, 100]: the
\* comprehensive skill match (hundredths), the experience sufficiency score
\* (a fraction), the qualification score, the mean of culture alignment and
\* adaptability score, and the achievement score.
C16_SubScoresInRange ==
  \A r \in Returned :
      LET a == r.analysis
          e == a.experience_analysis.experience_sufficiency_score
          cultural_twice == a.cultural_fit.culture_alignment + a.cultural_fit.adaptability_score
      IN /\ a.skill_analysis.comprehensive_match_percentage >= 0
         /\ a.skill_analysis.comprehensive_match_percentage <= 10000
         /\ e[1] >= 0 /\ e[1] <= 100 * e[2]
         /\ a.qualification_analysis.qualification_score >= 0
         /\ a.qualification_analysis.qualification_score <= 100
         /\ cultural_twice >= 0 /\ cultural_twice <= 200
         /\ a.achievements_impact.achievement_score >= 0
         /\ a.achievements_impact.achievement_score <= 100

-----------------------------------------------------------------------------
(* C17 *)

\* the experience analysis with one of its sub-signals set to another value
ExperienceVariants(experience_fit) ==
  { [experience_fit EXCEPT ![f] = v] :
      f \in {"industry_relevance", "leadership_experience", "career_stability"},
      v \in {0, 100, 10000} }

TrajectoryVariants(experience_fit) ==
  { [experience_fit EXCEPT !.career_progression_score = v] : v \in {0, 5000, 10000} }

SufficiencyVariants(experience_fit) ==
  { [experience_fit EXCEPT !.experience_sufficiency_score = v] : v \in {<<0, 1>>, <<100, 1>>} }

\* the overall score of a returned analysis with its experience analysis replaced
OverallWith(a, experience_fit) ==
  CalculateComprehensiveScore(a.skill_analysis, experience_fit, a.qualification_analysis,
                              a.cultural_fit, a.achievements_impact)

\* C17 (as amended): of the experience sub-signals only the sufficiency score
\* feeds the overall score: an analysis that differs only in the career
\* trajectory score, the industry relevance, the leadership score or the
\* stability score has the same overall score, and one that differs in the
\* sufficiency score can have another.
C17_OnlySufficiencyFeeds ==
  \A r \in Returned :
      /\ \A x \in ExperienceVariants(r.analysis.experience_analysis)
                    \cup TrajectoryVariants(r.analysis.experience_analysis) :
            OverallWith(r.analysis, x) = r.analysis.overall_score
      /\ \E x \in SufficiencyVariants(r.analysis.experience_analysis) :
            OverallWith(r.analysis, x) # r.analysis.overall_score

\* a report of a candidate with a position, whose career trajectory score is
\* not 0 and whose sufficiency score is neither 0 nor 100
C17_Witness ==
  \E r \in Returned :
      /\ r.analysis.experience_analysis.career_progression_score > 0
      /\ r.analysis.experience_analysis.experience_sufficiency_score[1] > 0
      /\ r.analysis.experience_analysis.experience_sufficiency_score[1]
           < 100 * r.analysis.experience_analysis.experience_sufficiency_score[2]

\* C17 as stated: no other sub-signal changes the overall score, and a change
\* of the career trajectory score can change it
C17_AsStated ==
  \A r \in Returned :
      /\ \A x \in ExperienceVariants(r.analysis.experience_analysis) :
            OverallWith(r.analysis, x) = r.analysis.overall_score
      /\ \E x \in TrajectoryVariants(r.analysis.experience_analysis) :
            OverallWith(r.analysis, x) # r.analysis.overall_score

-----------------------------------------------------------------------------
(* C18 *)

\* the lines of the scanned documents, by what the two line scans make of
\* them: the two headings (each is the other section's closing line, being
\* under 50 characters), the lines a scan extracts from, and the line of 57
\* characters that carries the keyword 'skills'
EducationHeading == "Education"
ExperienceHeading == "Experience"
QualificationLines == {"BSc Mathematics, Africa College 2014"}
PositionLines == {"BSc Mathematics, Africa College 2014", "Developer at Acme 2018-2020"}
LongKeywordLine == "Managed the skills matrix of all the delivery teams there"

\* the indices from k on of the lines in the section when headings open it,
\* closers close it and a later heading opens it again
RECURSIVE SpanReopened(_, _, _, _, _)
SpanReopened(blocks, k, open, heading, closer) ==
  IF k > Len(blocks) THEN {}
  ELSE IF blocks[k] = heading THEN SpanReopened(blocks, k + 1, TRUE, heading, closer)
  ELSE IF open /\ blocks[k] = closer THEN SpanReopened(blocks, k + 1, FALSE, heading, closer)
  ELSE (IF open THEN {k} ELSE {}) \cup SpanReopened(blocks, k + 1, open, heading, closer)

\* the indices of the lines between the first heading and the first closer
\* after it
SpanToFirstClose(blocks, heading, closer) ==
  LET opens == { i \in 1..Len(blocks) : blocks[i] = heading }
  IN IF opens = {} THEN {}
     ELSE LET o == CHOOSE i \in opens : \A j \in opens : i <= j
              closes == { i \in (o + 1)..Len(blocks) : blocks[i] = closer }
              c == IF closes = {} THEN Len(blocks) + 1
                   ELSE CHOOSE i \in closes : \A j \in closes : i <= j
          IN { i \in (o + 1)..(c - 1) : blocks[i] # heading }

\* the lines of S with index in span, in order
LinesIn(blocks, span, S) ==
  SelectSeq([i \in 1..Len(blocks) |-> IF i \in span /\ blocks[i] \in S THEN blocks[i] ELSE ""],
            LAMBDA l : l # "")

QualificationTexts(result) ==
  [i \in 1..Len(result.qualifications.all_qualifications) |->
     result.qualifications.all_qualifications[i].text]

PositionTexts(result) ==
  [i \in 1..Len(result.experience.career_progression) |->
     result.experience.career_progression[i].description]

C18_WitnessLong ==
  /\ document.blocks = << "Experience", LongKeywordLine, "Developer at Acme 2018-2020" >>
  /\ \E result \in Profiled : PositionTexts(result) = <<"Developer at Acme 2018-2020">>

-----------------------------------------------------------------------------
(* C19 *)

\* the lines after the i-th that do not start a position, up to the next one
\* that does or to the end of span (a set of consecutive indices)
FollowingLines(blocks, span, i) ==
  { j \in span : /\ j > i
                 /\ \A m \in (i + 1)..j : m \in span /\ blocks[m] \notin PositionLines }

\* the indices in span of the lines that start a position, in order
PositionIndices(blocks, span) ==
  SelectSeq([i \in 1..Len(blocks) |-> IF i \in span /\ blocks[i] \in PositionLines THEN i ELSE 0],
            LAMBDA i : i # 0)

\* C19: the positions are the date-bearing lines of the experience section in
\* the order met, the last open one appended at the end of the scan, and every
\* following line that starts no position is attached to the description of
\* the open position.
C19_PositionsAndDescriptions ==
  \A result \in Profiled :
      LET blocks == document.blocks
          span == SpanToFirstClose(blocks, ExperienceHeading, EducationHeading)
          starts == PositionIndices(blocks, span)
          positions == result.experience.career_progression
      IN /\ Len(positions) = Len(starts)
         /\ \A n \in 1..Len(positions) :
              /\ Contains(Spell[positions[n].description], Spell[blocks[starts[n]]])
              /\ \A j \in FollowingLines(blocks, span, starts[n]) :
                   Contains(Spell[positions[n].description], Spell[blocks[j]])

-----------------------------------------------------------------------------
(* C20 *)

\* the year tokens of the date range of each line and whether its end token
\* is present / current / now
DateTokens ==
  "Developer at Acme 2018-2020" :> [years |-> <<2018, 2020>>, open |-> FALSE] @@
  "Team Lead, managed accounts at Globex Bank 2015-2020" :> [years |-> <<2015, 2020>>, open |-> FALSE] @@
  "Employee of the year award 2019" :> [years |-> <<2019>>, open |-> FALSE] @@
  "Lead at Globex 2020-Present" :> [years |-> <<2020>>, open |-> TRUE] @@
  "BSc Mathematics, Africa College 2014" :> [years |-> <<2014>>, open |-> FALSE] @@
  "Developer at Acme 2020-2018" :> [years |-> <<2020, 2018>>, open |-> FALSE]

\* C20: the duration of a position is the difference of the two year tokens
\* of its date range, the end year being the current year when the end token
\* is present / current / now ('2020-Present' lasts currentYear - 2020), and 0
\* when there are fewer than two year tokens and no such end token.
C20_DurationYears ==
  (call.op = "_extract_position_info" /\ call.result.dates # "") =>
    LET tokens == DateTokens[call.text]
    IN call.result.duration_years =
         IF Len(tokens.years) >= 2 THEN tokens.years[2] - tokens.years[1]
         ELSE IF tokens.open THEN call.year - tokens.years[1]
         ELSE 0

-----------------------------------------------------------------------------
(* C21 *)

\* C21: every extracted position has a duration of 0 years or more, whatever
\* the order of the two years of its date range.
C21_DurationNotNegative ==
  (call.op = "_extract_position_info" /\ call.result.dates # "") =>
    call.result.duration_years >= 0

-----------------------------------------------------------------------------
(* C22 *)

ExperienceCalled == call.op = "extract_experience_advanced"

\* C22: the total experience is the sum of the durations of all extracted
\* positions, capped at 50, and so lies in [0, 50]; overlapping positions are
\* summed without merging.
C22_TotalExperience ==
  ExperienceCalled =>
    LET positions == call.result.career_progression
        total == call.result.total_experience_years
    IN /\ total = Min(SumSeq([i \in 1..Len(positions) |-> positions[i].duration_years]), 50)
       /\ total >= 0
       /\ total <= 50

-----------------------------------------------------------------------------
(* C23 *)

RequirementsCalled == call.op = "_extract_experience_requirements_advanced"

\* the number of each years phrase, and the years of each seniority word
PhraseYears ==
  "0+ years experience" :> 0 @@ "3 years experience" :> 3 @@ "5+ years experience" :> 5

SeniorityYears ==
  "entry-level" :> 0 @@ "junior" :> 1 @@ "mid-level" :> 3 @@ "senior" :> 5 @@
  "lead" :> 7 @@ "principal" :> 8 @@ "executive" :> 10

\* C23: the required minimum years is the number of the 'N+ years experience'
\* phrase when the job text has one (N = 0 included), otherwise the years of
\* its seniority word, and 2 only when it has neither.
C23_RequiredYears ==
  RequirementsCalled =>
    call.result.min_years =
      IF call.years # "" THEN PhraseYears[call.years]
      ELSE IF call.seniority # "" THEN SeniorityYears[call.seniority]
      ELSE 2

-----------------------------------------------------------------------------
(* C24 *)

\* the job text states an experience requirement: it has the years phrase
\* (no job phrase has a seniority word)
RequirementStated == Contains(job_description, Spell["5+ years experience"])

\* C24: the experience sufficiency score is 100 when the actual years reach
\* the required years, min(100, actual / required * 100) when they do not and
\* required > 0, and the neutral 50 when the job states no experience
\* requirement; it always lies in [0, 100].
C24_SufficiencyScore ==
  \A r \in Returned :
      LET x == r.analysis.experience_analysis
          e == x.experience_sufficiency_score
          actual == x.actual_experience
          required == x.required_experience
      IN /\ e[2] > 0 /\ e[1] >= 0 /\ e[1] <= 100 * e[2]
         /\ IF ~RequirementStated THEN e[1] = 50 * e[2]
            ELSE IF actual >= required THEN e[1] = 100 * e[2]
            ELSE required > 0 /\ e[1] * required = Min(100 * required, actual * 100) * e[2]

-----------------------------------------------------------------------------
(* C25 *)

\* the confidence as the formula with a frequency bonus for every
\* frequency >= 1 gives it, in hundredths
ConfidenceWithBonusFromOne(skill, text, frequency) ==
  Min(50 + (IF InSkillsSection(skill, text) THEN 30 ELSE 0)
         + (IF InBulletList(skill, text) THEN 10 ELSE 0)
         + Min(10, frequency * 5),
      100)

\* the results of the skill extractor's calls
SkillsCalled == call.op = "extract_skills_comprehensive"

\* C25: the confidence of a skill entry is 0.5, plus 0.3 in a skills region,
\* plus 0.1 after a bullet, plus min(0.1, frequency * 0.05) for every
\* frequency >= 1 (a skill found once gets +0.05), capped at 1.0.
C25_SkillConfidence ==
  SkillsCalled =>
    \A i \in 1..Len(call.result.skills_by_category) :
      LET entry == call.result.skills_by_category[i]
      IN entry.confidence =
           ConfidenceWithBonusFromOne(Spell[entry.skill], Lower(call.text), entry.frequency)

-----------------------------------------------------------------------------
(* C26 *)

\* the candidate rows of a job that carry one resume code
RowsOf(job_id, candidate_name) ==
  { c \in candidates : c.job_id = job_id /\ c.candidate_name = candidate_name }

OneRowPerCode ==
  \A c \in candidates : Cardinality(RowsOf(c.job_id, c.candidate_name)) <= 1

\* a session is between the duplicate check of a file and its commit
MidFile(u) == cursor[u].pc \in {"score", "query", "write"}

\* the uploads come one after the other: no two sessions are in the middle
\* of a file at once
OneUploadAtATime == Cardinality({ u \in Users : MidFile(u) }) <= 1

C26_WitnessSkipped ==
  \E u \in Users :
    /\ uploads[u].handle_duplicates = SkipDuplicates
    /\ cursor[u].pc = "done"
    /\ counters[u].skipped_duplicates = 1
    /\ \E c \in candidates : c.attempt = <<u, 1>> /\ RowsOf(c.job_id, c.candidate_name) = {c}
    /\ \A v \in Users \ {u} : uploads[v].files = <<>>

-----------------------------------------------------------------------------
(* C27 *)

StoredCodes == { row.resume_code : row \in cv_storage }

CanRead(resume_code, u) == GetCvByResumeCode(resume_code, u, "ok") # <<>>

\* get_cv_by_resume_code returns a record only to a superadmin or to the
\* user recorded in it, whether the statement fails or not
ReadOnlyByOwnerOrSuperadmin ==
  \A u \in Users : \A resume_code \in StoredCodes : \A db \in DatabaseFaults :
    GetCvByResumeCode(resume_code, u, db) # <<>> =>
      \/ is_superadmin[u]
      \/ \E row \in cv_storage : row.resume_code = resume_code /\ row.user_id = u

\* the step is a call of store_cv_file by v that stores a record under the code
Stores(v, resume_code) ==
  /\ cursor[v].pc = "score"
  /\ \E row \in cv_storage' : row.resume_code = resume_code /\ row.attempt = Attempt(v)

\* C27: after any sequence of store_cv_file calls, a CV is returned only to
\* a superadmin or to the user recorded as its owner; a user who stores a CV
\* under a code can read it from then on, until another user stores a CV
\* under the same code (no CV is deleted in a batch upload).
C27_ReadAccess ==
  /\ []ReadOnlyByOwnerOrSuperadmin
  /\ [][\A u \in Users : \A resume_code \in StoredCodes' :
          /\ Stores(u, resume_code) => CanRead(resume_code, u)'
          /\ ( /\ \E row \in cv_storage : row.resume_code = resume_code /\ row.user_id = u
               /\ \A v \in Users \ {u} : ~Stores(v, resume_code) )
             => CanRead(resume_code, u)']_vars

\* both users have uploaded one code: the record is the HR user's, who reads
\* it, as the superadmin does
C27_Witness ==
  \E row \in cv_storage :
    /\ row.user_id = 2
    /\ \E o \in outcomes[1] : o.outcome = "successful" /\ o.resume_code = row.resume_code
    /\ CanRead(row.resume_code, 2)
    /\ CanRead(row.resume_code, 1)

\* both users have uploaded one code: the record is the superadmin's, and
\* the HR user cannot read it
C27_WitnessLost ==
  \E row \in cv_storage :
    /\ row.user_id = 1
    /\ \E o \in outcomes[2] : o.outcome = "successful" /\ o.resume_code = row.resume_code
    /\ ~CanRead(row.resume_code, 2)

\* the claim as stated: a user recorded as owner of a code can read it after
\* every step
C27_AsStated ==
  /\ []ReadOnlyByOwnerOrSuperadmin
  /\ [][\A u \in Users : \A row \in cv_storage :
          row.user_id = u => CanRead(row.resume_code, u)']_vars

-----------------------------------------------------------------------------
(* C28 *)

QualificationsCalled == call.op = "extract_qualifications_advanced"

\* the lines passed to the extractor that carry a keyword of the section
HeadingLines(keywords) ==
  { call.lines[i] : i \in { j \in 1..Len(call.lines) : AnyIn(keywords, Lower(Spell[call.lines[j]])) } }

\* C28: in the qualification scan and in the experience scan a line that
\* contains one of the section's own start keywords is consumed as a heading
\* and yields no entry, also inside the open section (a degree line with
\* 'education', a position line with 'experience').
C28_HeadingLinesYieldNothing ==
  /\ QualificationsCalled =>
       \A i \in 1..Len(call.result.all_qualifications) :
          call.result.all_qualifications[i].text \notin HeadingLines(education_keywords)
  /\ ExperienceCalled =>
       \A i \in 1..Len(call.result.career_progression) :
          call.result.career_progression[i].description \notin HeadingLines(experience_keywords)

\* an open experience section with a position line that contains
\* 'experience' and one that does not: one position
C28_Witness ==
  /\ ExperienceCalled
  /\ call.lines = <<"Developer at Acme 2018-2020", "Experienced Developer at Acme 2018-2020">>
  /\ Len(call.result.career_progression) = 1

\* an open education section with a degree line that contains 'education'
\* and one that does not: one qualification
C28_WitnessQualification ==
  /\ QualificationsCalled
  /\ call.lines = <<"Master of Science", "Master of Education">>
  /\ Len(call.result.all_qualifications) = 1

-----------------------------------------------------------------------------
(* C29 *)

\* C29: the exact matches and the related matches of a skill analysis are
\* disjoint: no skill of the candidate is counted both with weight 1 and with
\* weight 0.7.
C29_MatchesDisjoint ==
  \A r \in Returned :
      Range(r.analysis.skill_analysis.exact_matches)
        \cap Range(r.analysis.skill_analysis.related_skills) = {}

-----------------------------------------------------------------------------
(* C30 *)

\* C30: the interview priority and the recommendation tier of one report
\* agree: a priority of "not recommended" goes with the tier "not
\* recommended" or, for a score of 50 or more, with "borderline", and a high
\* priority goes with "strong recommend" or "top candidate".
C30_PriorityAndTier ==
  \A r \in Returned :
      LET priority == r.report.interview_priority
          tier == r.report.job_fit_analysis.fit_analysis
          score == r.report.job_fit_analysis.compatibility_score
      IN /\ priority = "NOT RECOMMENDED" =>
              \/ tier = "NOT RECOMMENDED"
              \/ tier = "BORDERLINE CANDIDATE" /\ score >= 5000 /\ score < 5500
         /\ priority = "HIGH PRIORITY" => tier \in {"STRONG RECOMMEND", "TOP CANDIDATE"}

\* a report with a score in [50, 55): not recommended for interview, and
\* borderline
C30_Witness ==
  \E r \in Returned :
      /\ r.report.interview_priority = "NOT RECOMMENDED"
      /\ r.report.job_fit_analysis.fit_analysis = "BORDERLINE CANDIDATE"

\* a report with a high priority
C30_WitnessHigh ==
  \E r \in Returned : r.report.interview_priority = "HIGH PRIORITY"

\* the claim as stated: "not recommended" with "not recommended" only
C30_AsStated ==
  \A r \in Returned :
      /\ r.report.interview_priority = "NOT RECOMMENDED" =>
            r.report.job_fit_analysis.fit_analysis = "NOT RECOMMENDED"
      /\ r.report.interview_priority = "HIGH PRIORITY" =>
            r.report.job_fit_analysis.fit_analysis \in {"STRONG RECOMMEND", "TOP CANDIDATE"}

====
